---- MODULE Spec2Model ----
(***************************************************************************)
(* Model of the cross-thread invocation reactor of pfwx                    *)
(* (src/src/reactor/handler.rs, src/src/reactor/context.rs,                *)
(* src/src/reactor/mem.rs).                                                *)
(*                                                                         *)
(* Threads: the owner (UI) thread, which owns one Handler object, its      *)
(* HandlerStateManager (registry) and the context window with its message  *)
(* queue; the background worker, which runs the futures wrapped by         *)
(* Handler::spawn and one direct HandlerInvoker::invoke; and one foreign   *)
(* thread calling HandlerInvoker::blocking_invoke.                         *)
(*                                                                         *)
(* The background runtime (src/src/reactor/runtime.rs) and the count of    *)
(* contexts that starts and stops it (context.rs, CONTEXT_COUNT) are       *)
(* modelled for several owner threads in SpecRuntime; Spec and SpecInvoke  *)
(* look at one context while another context of the process keeps the      *)
(* runtime up.                                                             *)
(*                                                                         *)
(* Every access to state shared between threads (AliveState, the window,   *)
(* the message queue, the oneshot channels, the heap box of an envelope)   *)
(* is a step of its own, so the threads interleave between them.           *)
(***************************************************************************)
EXTENDS Integers, Sequences, FiniteSets, TLC

\* ------------------------------------------------------------------ bounds
MaxTasks == 2                 \* tasks the object spawns with Handler::spawn
MaxCtx == 2                   \* owner threads that create and drop a SyncContext
MaxRtTasks == 2               \* futures handed to runtime::spawn
MaxGen == 2                   \* worker threads the process starts one after another
MaxHandles == 2               \* handles SyncContext::current has given out on one thread
MaxPolls == 3                 \* polls of the future guarded by cancel_by_event
MaxTicks == 3                 \* ticks of the one-second interval during one HTTP transfer
MaxChunks == 2                \* body chunks one HTTP response delivers
MaxIds == 1                   \* request ids the script passes to AsyncSend

Tasks     == 1..MaxTasks
AsyncInv  == MaxTasks + 1     \* a direct HandlerInvoker::invoke (its future may be dropped)
BlockInv  == MaxTasks + 2     \* a HandlerInvoker::blocking_invoke on a foreign thread
Procs     == 1..(MaxTasks + 2)
Owner     == 1                \* the thread that owns the object and its context window
ReqIds    == 1..MaxIds
\* the value the future of caller p produces (distinct per caller)
Value(p)  == 10 + p
\* the value the closure of invoke returns for the parameter it received
ClosureResult(v) == v + 100

Ctxs    == 1..MaxCtx
RtTasks == 1..MaxRtTasks
Gens    == 1..MaxGen

VARIABLES
    alive,        \* AliveState of the owner object
    mgr_live,     \* the Rc<RefCell<HandlerStateManager>> still exists
    next_id,      \* HandlerStateManager.next_id
    pending,      \* HandlerStateManager.pending: sequence of [id, ch]; ch names the oneshot pair
    cancel_id,    \* CancelHandle.id of each task (-1: not spawned)
    signal,       \* per task: number of cancellation signals that reached the channel
    sends,        \* per task: number of tx.send(()) calls made on its cancel sender
    rx_closed,    \* per task: cancel_rx closed or dropped (tx.is_closed())
    window,       \* IsWindow(hwnd) of the context window
    queue,        \* posted WM_SYNC_CONTEXT messages, lparam = envelope of proc
    hwnd_lock,    \* holder of the Arc<AsyncMutex<UnsafeHWND>> (0: free)
    pc,           \* position of each background / foreign caller
    payload,      \* "none" | "invoke" | "panic": MessagePayload of the proc's envelope
    box,          \* "none" | "boxed" | "freed": heap box of the MessagePack
    unbox_owner,  \* times wnd_proc unpacked the envelope
    unbox_disp,   \* times the dispatcher's failure path unpacked the envelope
    param,        \* value in the parameter box (0: none)
    param_free,   \* times the parameter box was unpacked and released
    ack,          \* acknowledgment oneshot: "none" | "open" | "sent" | "rx_dropped"
    result,       \* result oneshot of invoke: "none" | "open" | "some" | "nil"
    invoke_rv,    \* what invoke returned: "none" | "Ok" | "TargetIsDead" | "Panic"
    wnd,          \* position of the owner thread inside wnd_proc
    owner_flag,   \* second argument wnd_proc passed to the handler: "none"|"true"|"false"
    ran,          \* times the caller's closure body ran on the owner thread
    got,          \* value the closure received (0: none)
    produced,     \* value the task's future produced (0: none)
    reports,      \* panic reports thrown into the session for the task
    ub,           \* "none" | "abort" | "stale": outcome of a second unpack of a freed box
    cancel_true,  \* times CancelHandle::cancel returned true for the task
    result_val,   \* value sent on the result oneshot (0: none)
    invoke_val,   \* value invoke returned inside Ok (0: none)
    panicked,     \* times the caller's closure panicked on the owner thread
    exception,    \* session.has_exception(): an exception thrown into the session is pending
    retried,      \* PostMessageA answered ERROR_NOT_ENOUGH_QUOTA for the caller's envelope
    full,         \* the owner thread's message queue has no quota left
    \* ---- background runtime and context count
    ctx,          \* per owner thread: where its SyncContext is in its life
    context_count,\* CONTEXT_COUNT
    atom_lock,    \* holder of the WINDOW_CLASS_ATOM mutex (0: free, -1: poisoned)
    cls,          \* WINDOW_CLASS_ATOM's value and the window class as the system has it
    rt_lock,      \* holder of the GLOBAL_RUNTIME mutex (0: free)
    runtime,      \* GLOBAL_RUNTIME: 0 for None, else the generation of the Runtime in it
    gen,          \* worker threads created so far
    worker,       \* per generation: "none" | "loop" | "drain" | "stopped" | "exited"
    msg_open,     \* per generation: the Runtime still holds msg_tx
    rt_queue,     \* per generation: Tasks sent on msg_tx and not yet received
    task,         \* per future: "new" | "queued" | "running" | "done"
    task_gen,     \* per future: generation of the runtime it was sent to (0: none)
    sd,           \* per owner thread: position inside runtime::shutdown
    returned,     \* per generation: the shutdown that tore it down has returned
    \* ---- cancel_by_event and its Win32Event
    e_pc,         \* position of cancel_by_event: "idle"|"mid"|"close"|"unreg"|"free"|"done"
    e_fut,        \* the guarded future: "pending" | "ready" | "output" | "dropped"
    e_polls,      \* polls of the guarded future
    e_signaled,   \* the caller's event object is signaled
    e_event,      \* the Win32Event: [owned, waiting]
    e_closed,     \* CloseHandle was called on the caller's handle
    e_reg,        \* successful RegisterWaitForSingleObject calls
    e_wait,       \* the OS wait: "none" | "armed" | "running" | "fired" | "unregistered"
    e_box,        \* heap box handed to the callback: "none" | "boxed" | "freed"
    e_frees,      \* times that box was freed
    e_rx,         \* the oneshot of Waiting: "none" | "open" | "value" | "taken" | "dropped"
    e_result,     \* what cancel_by_event gave: "none"|"Some"|"None"|"Panic"|"Dropped"
    e_ub,         \* the callback used the box after it was freed
    \* ---- Handler::blocking_spawn on the owner thread
    bs_pc,        \* the owner thread inside blocking_spawn: "none" | "blocked" | "returned"
    bs_where,     \* where it was called: "none" | "script" | "closure"
    bs_fut,       \* its future on the worker: "none"|"run"|"await"|"done"|"panicked"
    bs_awaited,   \* the future awaited an invoke on the owner thread
    bs_tx,        \* its result oneshot: "none" | "open" | "ok" | "panic" | "dropped"
    bs_rv,        \* what blocking_spawn returned: "none" | "Ok" | "Panic" | "Unwound"
    bs_val,       \* the value inside Ok (0: none)
    \* ---- SyncContext::current
    handles,      \* per owner thread: clones of its SyncContext held besides CURRENT_CONTEXT
    \* ---- an HTTP transfer with progress callbacks
    xfer,         \* the locals of its two select! loops and the owner's message queue
    \* ---- HttpClient
    http          \* its pending map and the events Cancel / CancelAll have raised

\* the background runtime and the contexts that count for it
rtVars == <<ctx, context_count, atom_lock, cls, rt_lock, runtime, gen, worker, msg_open,
            rt_queue, task, task_gen, sd, returned>>

\* the object, its registry, its context window and the callers that dispatch to it
reactorVars == <<alive, mgr_live, next_id, pending, cancel_id, signal, sends,
                 rx_closed, window, queue, hwnd_lock, pc, payload, box, unbox_owner,
                 unbox_disp, param, param_free, ack, result, invoke_rv, wnd,
                 owner_flag, ran, got, produced, reports, ub, cancel_true,
                 result_val, invoke_val, panicked, exception, retried, full>>

\* cancel_by_event and its Win32Event
evVars == <<e_pc, e_fut, e_polls, e_signaled, e_event, e_closed, e_reg, e_wait, e_box,
            e_frees, e_rx, e_result, e_ub>>

\* Handler::blocking_spawn
bsVars == <<bs_pc, bs_where, bs_fut, bs_awaited, bs_tx, bs_rv, bs_val>>

\* what the reactor and the runtime never touch
extVars == <<evVars, bsVars, handles, xfer, http>>

vars == <<reactorVars, rtVars, extVars>>

\* groups used in UNCHANGED
regVars  == <<mgr_live, next_id, pending, cancel_id>>
chanVars == <<signal, sends, rx_closed>>
envVars  == <<payload, box, unbox_owner, unbox_disp, param, param_free, ack, result,
              result_val>>
histVars == <<owner_flag, ran, got, produced, reports, cancel_true, invoke_val,
              panicked, retried>>

\* ------------------------------------------------------- registry helpers
\* Vec::iter().position(|(_, tx)| tx.is_closed()): first closed entry, 0 if none
PositionClosed(pend, closed) ==
    IF \E i \in 1..Len(pend) : closed[pend[i].ch]
    THEN CHOOSE i \in 1..Len(pend) :
            /\ closed[pend[i].ch]
            /\ \A j \in 1..(i-1) : ~closed[pend[j].ch]
    ELSE 0

\* Vec::iter().position(|item| item.0 == id): first entry with that id, 0 if none
PositionId(pend, id) ==
    IF \E i \in 1..Len(pend) : pend[i].id = id
    THEN CHOOSE i \in 1..Len(pend) :
            /\ pend[i].id = id
            /\ \A j \in 1..(i-1) : pend[j].id # id
    ELSE 0

RemoveAt(s, i) == [k \in 1..(Len(s)-1) |-> IF k < i THEN s[k] ELSE s[k+1]]

\* new_cancel_id numbering an entry by its position instead of next_id
new_cancel_id_SlotId(pend, closed, id, ch) ==
    LET idx == PositionClosed(pend, closed) IN
    IF idx # 0 THEN [pend EXCEPT ![idx] = [id |-> idx - 1, ch |-> ch]]
               ELSE Append(pend, [id |-> Len(pend), ch |-> ch])

\* new_cancel_id that always pushes
new_cancel_id_Push(pend, closed, id, ch) == Append(pend, [id |-> id, ch |-> ch])

\* HandlerStateManager::new_cancel_id: the pending list after registering (id, tx of ch)
new_cancel_id(pend, closed, id, ch) ==
    LET idx == PositionClosed(pend, closed) IN
    IF idx # 0 THEN [pend EXCEPT ![idx] = [id |-> id, ch |-> ch]]
               ELSE Append(pend, [id |-> id, ch |-> ch])

\* HandlerStateManager::remove_cancel: Vec::retain(|item| item.0 != id)
remove_cancel(pend, id) == SelectSeq(pend, LAMBDA item : item.id # id)

\* ------------------------------------------------------------------ Init
\* no context, no runtime, no worker thread
InitRuntime ==
    /\ ctx = [c \in Ctxs |-> "none"]
    /\ context_count = 0
    /\ atom_lock = 0
    /\ cls = [atom |-> 0, registered |-> FALSE, failed |-> FALSE]
    /\ rt_lock = 0
    /\ runtime = 0
    /\ gen = 0
    /\ worker = [g \in Gens |-> "none"]
    /\ msg_open = [g \in Gens |-> FALSE]
    /\ rt_queue = [g \in Gens |-> <<>>]
    /\ task = [t \in RtTasks |-> "new"]
    /\ task_gen = [t \in RtTasks |-> 0]
    /\ sd = [c \in Ctxs |-> "no"]
    /\ returned = [g \in Gens |-> FALSE]

\* a from_raw that takes ownership of the handle
from_raw_Owned == [owned |-> TRUE, waiting |-> FALSE]

\* Win32Event::from_raw: the handle is borrowed and no wait is registered
from_raw == [owned |-> FALSE, waiting |-> FALSE]

\* execute_request_with_progress has been entered: the request is in flight, no
\* progress invocation exists (tick_invoke = Either::Left(future::pending())) and
\* the completion flag is DoneFlag::Pending
InitTransfer ==
    xfer = [phase |-> "send", req |-> "Left", tick_invoke |-> "Left",
            done_flag |-> "Pending", inv |-> "none", rv |-> "none", cur |-> 0,
            started |-> 0, ticks |-> 0, chunks |-> 0, eof |-> FALSE,
            queue |-> <<>>, target |-> TRUE, result |-> "none"]

\* HttpClient::new: the pending map is empty, no request was sent
InitHttp ==
    http = [map |-> [i \in ReqIds |-> 0], id |-> [t \in Tasks |-> 0],
            replaced |-> [t \in Tasks |-> FALSE],
            cancelled |-> [t \in Tasks |-> 0], answered |-> [t \in Tasks |-> 0]]

\* blocking_spawn has not been called
InitBlocking ==
    /\ bs_pc = "none"
    /\ bs_where = "none"
    /\ bs_fut = "none"
    /\ bs_awaited = FALSE
    /\ bs_tx = "none"
    /\ bs_rv = "none"
    /\ bs_val = 0

\* Win32Event::take_raw (as auto, manual and clone): the event owns its handle
take_raw == [owned |-> TRUE, waiting |-> FALSE]

\* a future and the event ev have been handed to future::select, not yet polled
InitEventOf(ev) ==
    /\ e_pc = "idle"
    /\ e_fut = "pending"
    /\ e_polls = 0
    /\ e_signaled = FALSE
    /\ e_event = ev
    /\ e_closed = FALSE
    /\ e_reg = 0
    /\ e_wait = "none"
    /\ e_box = "none"
    /\ e_frees = 0
    /\ e_rx = "none"
    /\ e_result = "none"
    /\ e_ub = FALSE

\* cancel_by_event(fut, hevent) has been called and not yet polled
InitEvent == InitEventOf(from_raw)

\* the state after the object, its registry and the context window were created;
\* started names the callers that take part
InitButEvent(started) ==
    /\ alive = TRUE
    /\ mgr_live = TRUE
    /\ next_id = 0
    /\ pending = <<>>
    /\ cancel_id = [t \in Tasks |-> -1]
    /\ signal = [t \in Tasks |-> 0]
    /\ sends = [t \in Tasks |-> 0]
    /\ rx_closed = [t \in Tasks |-> FALSE]
    /\ window = TRUE
    /\ queue = <<>>
    /\ hwnd_lock = 0
    /\ pc = [p \in Procs |-> IF p \in started THEN "idle" ELSE "off"]
    /\ payload = [p \in Procs |-> "none"]
    /\ box = [p \in Procs |-> "none"]
    /\ unbox_owner = [p \in Procs |-> 0]
    /\ unbox_disp = [p \in Procs |-> 0]
    /\ param = [p \in Procs |-> 0]
    /\ param_free = [p \in Procs |-> 0]
    /\ ack = [p \in Procs |-> "none"]
    /\ result = [p \in Procs |-> "none"]
    /\ invoke_rv = [p \in Procs |-> "none"]
    /\ wnd = [st |-> "idle", e |-> 0, has_rx |-> FALSE]
    /\ owner_flag = [p \in Procs |-> "none"]
    /\ ran = [p \in Procs |-> 0]
    /\ got = [p \in Procs |-> 0]
    /\ produced = [p \in Procs |-> 0]
    /\ reports = [p \in Procs |-> 0]
    /\ ub = "none"
    /\ cancel_true = [t \in Tasks |-> 0]
    /\ result_val = [p \in Procs |-> 0]
    /\ invoke_val = [p \in Procs |-> 0]
    /\ panicked = [p \in Procs |-> 0]
    /\ exception = FALSE
    /\ retried = [p \in Procs |-> FALSE]
    /\ full = FALSE
    /\ InitRuntime
    /\ InitBlocking
    /\ handles = [c \in Ctxs |-> 0]
    /\ InitTransfer
    /\ InitHttp

\* the same, with the event of cancel_by_event
InitWith(started) == InitButEvent(started) /\ InitEvent

\* an owner thread that pumps messages while it waits in blocking_spawn
OwnerBlocked_Never(at) == FALSE

\* the owner thread waits in rx.blocking_recv() of blocking_spawn: it runs nothing
\* else and pumps no message
OwnerBlocked(at) == at = "blocked"

\* the owner thread is outside wnd_proc, not blocked, and the process has not aborted
OwnerIdle ==
    wnd.st = "idle" /\ ub # "abort" /\ ~OwnerBlocked(bs_pc) /\ sd[Owner] = "no"

\* ---------------------------------------------------- owner thread: spawn
\* Handler::spawn: invoker(), new_cancel_handle(), runtime::spawn(wrapped future)
spawn(t) ==
    /\ OwnerIdle
    /\ alive /\ mgr_live /\ window
    /\ pc[t] = "idle"
    /\ \A u \in Tasks : u < t => pc[u] # "idle"
    /\ cancel_id' = [cancel_id EXCEPT ![t] = next_id]
    /\ next_id' = next_id + 1
    /\ pending' = new_cancel_id(pending, rx_closed, next_id, t)
    /\ pc' = [pc EXCEPT ![t] = "run"]
    /\ UNCHANGED <<extVars, rtVars, full, exception, alive, mgr_live, chanVars, window, queue, hwnd_lock, envVars,
                   invoke_rv, wnd, histVars, ub>>


\* ------------------------------------------- worker: the wrapped future
\* the inner future resolves: cancel_rx.close(), then the try_recv check
fut_resolve(t) ==
    /\ ub # "abort"
    /\ pc[t] = "run"
    /\ rx_closed' = [rx_closed EXCEPT ![t] = TRUE]
    /\ IF signal[t] > 0
       THEN /\ pc' = [pc EXCEPT ![t] = "cancelled"]
            /\ UNCHANGED produced
       ELSE /\ pc' = [pc EXCEPT ![t] = "invoke"]
            /\ produced' = [produced EXCEPT ![t] = Value(t)]
    /\ UNCHANGED <<extVars, rtVars, full, exception, alive, regVars, signal, sends, window, queue, hwnd_lock, envVars,
                   invoke_rv, wnd, owner_flag, ran, got, reports, ub, cancel_true,
                   invoke_val, panicked, retried>>

\* the inner future panics: caught by catch_unwind, invoker.panic(info) is dispatched
fut_panic(t) ==
    /\ ub # "abort"
    /\ pc[t] = "run"
    /\ rx_closed' = [rx_closed EXCEPT ![t] = TRUE]
    /\ payload' = [payload EXCEPT ![t] = "panic"]
    /\ pc' = [pc EXCEPT ![t] = "lock"]
    /\ UNCHANGED <<extVars, rtVars, full, exception, alive, regVars, signal, sends, window, queue, hwnd_lock, box,
                   unbox_owner, unbox_disp, param, param_free, ack, result,
                   result_val, invoke_rv, wnd, histVars, ub>>

\* the select! loop sees the cancellation signal first: the inner future is dropped
cancel_observed(t) ==
    /\ ub # "abort"
    /\ pc[t] = "run"
    /\ signal[t] > 0
    /\ rx_closed' = [rx_closed EXCEPT ![t] = TRUE]
    /\ pc' = [pc EXCEPT ![t] = "cancelled"]
    /\ UNCHANGED <<extVars, rtVars, full, exception, alive, regVars, signal, sends, window, queue, hwnd_lock, envVars,
                   invoke_rv, wnd, histVars, ub>>

\* ------------------------------------------------ HandlerInvoker::invoke
\* a caller other than a spawned task starts invoke / blocking_invoke
invoke_start(p) ==
    /\ ub # "abort"
    /\ p \in {AsyncInv, BlockInv}
    /\ pc[p] = "idle"
    /\ produced' = [produced EXCEPT ![p] = Value(p)]
    /\ pc' = [pc EXCEPT ![p] = "invoke"]
    /\ UNCHANGED <<extVars, rtVars, full, exception, alive, regVars, chanVars, window, queue, hwnd_lock, envVars,
                   invoke_rv, wnd, owner_flag, ran, got, reports, ub, cancel_true,
                   invoke_val, panicked, retried>>

\* invoke / blocking_invoke up to the dispatch: the is_dead() check, the result
\* channel, the handler closure and the parameter box
invoke(p) ==
    /\ ub # "abort"
    /\ pc[p] = "invoke"
    /\ IF ~alive
       THEN /\ invoke_rv' = [invoke_rv EXCEPT ![p] = "TargetIsDead"]
            /\ pc' = [pc EXCEPT ![p] = "done"]
            /\ UNCHANGED <<payload, param, result>>
       ELSE /\ payload' = [payload EXCEPT ![p] = "invoke"]
            /\ param' = [param EXCEPT ![p] = produced[p]]
            /\ result' = [result EXCEPT ![p] = "open"]
            /\ pc' = [pc EXCEPT ![p] = "lock"]
            /\ UNCHANGED invoke_rv
    /\ UNCHANGED <<extVars, rtVars, full, exception, alive, regVars, chanVars, window, queue, hwnd_lock, box,
                   unbox_owner, unbox_disp, param_free, ack, result_val, wnd, histVars, ub>>

\* ------------------------------------------------------------ Dispatcher
\* what the dispatch returns to: invoke awaits the result, dispatch_panic ends the task
AfterAck(p) == IF payload[p] = "invoke" THEN "result" ELSE "done"
WaitPc(p)   == IF p = BlockInv THEN "bwait" ELSE "wait"

\* a handler that is dropped without being called
HandlerFalse_Skip(p) == UNCHANGED <<param_free, result>>

\* the handler closure called with invoke = false (handler.rs 307-317): the
\* parameter box is unpacked and None is sent on the result channel
HandlerFalse(p) ==
    IF payload[p] = "invoke"
    THEN /\ param_free' = [param_free EXCEPT ![p] = @ + 1]
         /\ result' = [result EXCEPT ![p] = IF @ = "open" THEN "nil" ELSE @]
    ELSE UNCHANGED <<param_free, result>>

\* PostMessageA taking a full queue for a destroyed window
PostMessageA_FullIsGone(w, f) == IF w /\ ~f THEN "ok" ELSE "gone"

\* PostMessageA on the context window: posted, ERROR_NOT_ENOUGH_QUOTA, or another error
PostMessageA(w, f) ==
    IF ~w THEN "gone" ELSE IF f THEN "quota" ELSE "ok"

\* post_message, the message was posted: Some((rx, alive, msg_pack)) goes back to
\* the dispatch, which waits for the acknowledgment with the hwnd lock held
PostOk(p) ==
    /\ box' = [box EXCEPT ![p] = "boxed"]
    /\ ack' = [ack EXCEPT ![p] = "open"]
    /\ queue' = Append(queue, p)
    /\ pc' = [pc EXCEPT ![p] = WaitPc(p)]
    /\ hwnd_lock' = p
    /\ UNCHANGED <<unbox_disp, param_free, result, invoke_rv>>

\* post_message, ERROR_NOT_ENOUGH_QUOTA: the envelope stays packed, the thread
\* sleeps 100 ms and posts it again
PostQuota(p) ==
    /\ box' = [box EXCEPT ![p] = "boxed"]
    /\ ack' = [ack EXCEPT ![p] = "open"]
    /\ pc' = [pc EXCEPT ![p] = "retry"]
    /\ hwnd_lock' = p
    /\ UNCHANGED <<queue, unbox_disp, param_free, result, invoke_rv>>

\* post_message, any other error: msg_pack.unpack(), handler(param, false), None;
\* the dispatch returns false and invoke Err(TargetIsDead)
PostGone(p) ==
    /\ box' = [box EXCEPT ![p] = "freed"]
    /\ ack' = [ack EXCEPT ![p] = "rx_dropped"]
    /\ unbox_disp' = [unbox_disp EXCEPT ![p] = @ + 1]
    /\ HandlerFalse(p)
    /\ hwnd_lock' = 0
    /\ invoke_rv' = [invoke_rv EXCEPT ![p] =
                        IF payload[p] = "invoke" THEN "TargetIsDead" ELSE @]
    /\ pc' = [pc EXCEPT ![p] = "unposted"]
    /\ UNCHANGED queue

\* a lock that lets every dispatch in
LockFree_Always(holder) == TRUE

\* self.hwnd.lock().await / blocking_lock() returns only while no other dispatch
\* of the same context holds the guard
LockFree(holder) == holder = 0

\* Dispatcher::dispatch / dispatch_blocking take the hwnd lock (held until the
\* dispatch returns or is dropped) and call post_message: pack the envelope and
\* PostMessageA for the first time
post_message(p) ==
    /\ ub # "abort"
    /\ pc[p] = "lock"
    /\ LockFree(hwnd_lock)
    /\ LET r == PostMessageA(window, full) IN
       \/ r = "ok" /\ PostOk(p) /\ UNCHANGED retried
       \/ r = "quota" /\ PostQuota(p) /\ retried' = [retried EXCEPT ![p] = TRUE]
       \/ r = "gone" /\ PostGone(p) /\ UNCHANGED retried
    /\ UNCHANGED <<extVars, rtVars, full, exception, alive, regVars, chanVars, window, payload,
                   unbox_owner, param, result_val, wnd, owner_flag, ran, got,
                   produced, reports, cancel_true, invoke_val, panicked, ub>>

\* post_message, the loop after a sleep: PostMessageA with the same envelope (a
\* queue still full sleeps again and changes nothing)
post_retry(p) ==
    /\ ub # "abort"
    /\ pc[p] = "retry"
    /\ LET r == PostMessageA(window, full) IN
       \/ r = "ok" /\ PostOk(p)
       \/ r = "gone" /\ PostGone(p)
    /\ UNCHANGED <<extVars, rtVars, full, exception, alive, regVars, chanVars, window, payload,
                   unbox_owner, param, result_val, wnd, histVars, ub>>

\* other senders fill the owner thread's message queue up to its quota
queue_fill ==
    /\ ub # "abort"
    /\ window /\ ~full
    /\ full' = TRUE
    /\ UNCHANGED <<extVars, rtVars, exception, alive, regVars, chanVars, window, queue,
                   hwnd_lock, pc, envVars, invoke_rv, wnd, histVars, ub>>

\* the owner thread pumps messages of others: the queue has room again
queue_drain ==
    /\ OwnerIdle
    /\ full
    /\ full' = FALSE
    /\ UNCHANGED <<extVars, rtVars, exception, alive, regVars, chanVars, window, queue,
                   hwnd_lock, pc, envVars, invoke_rv, wnd, histVars, ub>>

\* dispatch returns true: the acknowledgment arrived
DispatchTrue(p) ==
    /\ hwnd_lock' = 0
    /\ pc' = [pc EXCEPT ![p] = AfterAck(p)]
    /\ UNCHANGED <<extVars, rtVars, full, exception, alive, regVars, chanVars, window, queue, envVars, invoke_rv, wnd,
                   histVars, ub>>

\* the sender's failure path: msg_pack.unpack(), handler(param, false), return false.
\* Unpacking a box the owner thread already unpacked is undefined behaviour: the
\* thread aborts on the emptied Option, or reads the stale envelope and goes on.
DispatchFail(p) ==
    /\ unbox_disp' = [unbox_disp EXCEPT ![p] = @ + 1]
    /\ \/ /\ box[p] = "boxed"
          /\ box' = [box EXCEPT ![p] = "freed"]
          /\ UNCHANGED ub
       \/ /\ box[p] = "freed"
          /\ ub' = "stale"
          /\ UNCHANGED box
    /\ ack' = [ack EXCEPT ![p] = IF @ = "open" THEN "rx_dropped" ELSE @]
    /\ HandlerFalse(p)
    /\ hwnd_lock' = 0
    /\ invoke_rv' = [invoke_rv EXCEPT ![p] =
                        IF payload[p] = "invoke" THEN "TargetIsDead" ELSE @]
    /\ pc' = [pc EXCEPT ![p] = "done"]
    /\ UNCHANGED <<extVars, rtVars, full, exception, alive, regVars, chanVars, window, queue,
                   payload, unbox_owner, param, result_val, wnd, histVars>>

DispatchAbort(p) ==
    /\ box[p] = "freed"
    /\ ub' = "abort"
    /\ unbox_disp' = [unbox_disp EXCEPT ![p] = @ + 1]
    /\ UNCHANGED <<extVars, rtVars, full, exception, alive, regVars, chanVars, window, queue, hwnd_lock, pc, payload,
                   box, unbox_owner, param, param_free, ack, result, result_val,
                   invoke_rv, wnd, histVars>>

\* the target is gone as the 100 ms poll sees it (context.rs 281 / 350)
TargetGone(p) == (payload[p] = "invoke" /\ ~alive) \/ ~window

\* Dispatcher::dispatch, select! arm `_ = &mut rx => return true`
dispatch_ack(p) ==
    /\ ub # "abort"
    /\ pc[p] = "wait"
    /\ ack[p] = "sent"
    /\ DispatchTrue(p)

\* Dispatcher::dispatch, the sleep arm: the aliveness re-poll finds the target gone,
\* rx.try_recv() is tried once more, then the failure path.  (alive and the window
\* only ever turn dead, so reading them before try_recv equals reading them with it.)
dispatch_poll(p) ==
    /\ ub # "abort"
    /\ pc[p] = "wait"
    /\ TargetGone(p)
    /\ \/ ack[p] = "sent" /\ DispatchTrue(p)
       \/ ack[p] # "sent" /\ DispatchFail(p)
       \/ ack[p] # "sent" /\ DispatchAbort(p)

\* Dispatcher::dispatch_blocking: rx.try_recv() at the head of the loop
dispatch_blocking_recv(p) ==
    /\ ub # "abort"
    /\ pc[p] = "bwait"
    /\ IF ack[p] = "sent"
       THEN DispatchTrue(p)
       ELSE /\ pc' = [pc EXCEPT ![p] = "bcheck"]
            /\ UNCHANGED <<extVars, rtVars, full, exception, alive, regVars, chanVars, window, queue, hwnd_lock,
                           envVars, invoke_rv, wnd, histVars, ub>>

\* Dispatcher::dispatch_blocking: the aliveness check, then the failure path or sleep
dispatch_blocking_check(p) ==
    /\ ub # "abort"
    /\ pc[p] = "bcheck"
    /\ \/ TargetGone(p) /\ DispatchFail(p)
       \/ TargetGone(p) /\ DispatchAbort(p)
       \/ /\ ~TargetGone(p)
          /\ pc' = [pc EXCEPT ![p] = "bwait"]
          /\ UNCHANGED <<extVars, rtVars, full, exception, alive, regVars, chanVars, window, queue, hwnd_lock,
                         envVars, invoke_rv, wnd, histVars, ub>>

\* invoke taking None on the result channel for a result
InvokeReturn_NoneIsOk(res) ==
    CASE res = "some" -> "Ok"
      [] res = "nil" -> "Ok"
      [] OTHER -> "Panic"

\* invoke / blocking_invoke: match rx.await { Ok(Some(rv)), Ok(None), Err(_) }
InvokeReturn(res) ==
    CASE res = "some" -> "Ok"
      [] res = "nil" -> "TargetIsDead"
      [] OTHER -> "Panic"

\* invoke / blocking_invoke: the result channel is filled (rx.await, blocking_recv)
invoke_result(p) ==
    /\ ub # "abort"
    /\ pc[p] = "result"
    /\ result[p] \in {"some", "nil", "tx_dropped"}
    /\ invoke_rv' = [invoke_rv EXCEPT ![p] = InvokeReturn(result[p])]
    /\ invoke_val' = [invoke_val EXCEPT ![p] =
                         IF result[p] = "some" THEN result_val[p] ELSE @]
    /\ pc' = [pc EXCEPT ![p] = "done"]
    /\ UNCHANGED <<extVars, rtVars, full, exception, alive, regVars, chanVars, window, queue,
                   hwnd_lock, envVars, wnd, owner_flag, ran, got, produced, reports,
                   cancel_true, panicked, retried, ub>>

\* the future awaiting invoke is dropped at one of its await points (the caller
\* raced it against a cancellation: http/client/request.rs tick_invoke)
invoke_dropped(p) ==
    /\ ub # "abort"
    /\ p = AsyncInv
    /\ pc[p] \in {"lock", "wait", "result"}
    /\ pc' = [pc EXCEPT ![p] = "dropped"]
    /\ hwnd_lock' = IF hwnd_lock = p THEN 0 ELSE hwnd_lock
    /\ ack' = [ack EXCEPT ![p] = IF @ = "open" THEN "rx_dropped" ELSE @]
    /\ result' = [result EXCEPT ![p] = "rx_dropped"]
    /\ UNCHANGED <<extVars, rtVars, full, exception, alive, regVars, chanVars, window, queue, payload, box,
                   unbox_owner, unbox_disp, param, param_free, result_val, invoke_rv,
                   wnd, histVars, ub>>


\* ------------------------------------------------- owner thread: wnd_proc
\* process_message / the host's pump takes the next WM_SYNC_CONTEXT message and
\* wnd_proc unpacks its lparam (context.rs 139).  Unpacking a box the sender's failure
\* path already freed is undefined behaviour: abort on the emptied Option, or go on
\* with the stale envelope.
wnd_proc_unpack ==
    /\ OwnerIdle
    /\ window
    /\ queue # <<>>
    /\ LET e == Head(queue) IN
       /\ queue' = Tail(queue)
       /\ unbox_owner' = [unbox_owner EXCEPT ![e] = @ + 1]
       /\ \/ /\ box[e] = "boxed"
             /\ box' = [box EXCEPT ![e] = "freed"]
             /\ wnd' = [st |-> "unpacked", e |-> e, has_rx |-> FALSE]
             /\ UNCHANGED ub
          \/ /\ box[e] = "freed"
             /\ ub' = "stale"
             /\ wnd' = [st |-> "unpacked", e |-> e, has_rx |-> FALSE]
             /\ UNCHANGED box
          \/ /\ box[e] = "freed"
             /\ ub' = "abort"
             /\ UNCHANGED <<box, wnd>>
    /\ UNCHANGED <<extVars, rtVars, full, exception, alive, regVars, chanVars, window, hwnd_lock, pc, payload,
                   unbox_disp, param, param_free, ack, result, result_val, invoke_rv,
                   histVars>>

\* wnd_proc: let has_rx = pack.tx.send(()).is_ok()  (context.rs 140)
wnd_proc_ack ==
    /\ ub # "abort"
    /\ wnd.st = "unpacked"
    /\ LET e == wnd.e IN
       /\ wnd' = [wnd EXCEPT !.st = "acked", !.has_rx = (ack[e] = "open")]
       /\ ack' = [ack EXCEPT ![e] = IF @ = "open" THEN "sent" ELSE @]
    /\ UNCHANGED <<extVars, rtVars, full, exception, alive, regVars, chanVars, window, queue, hwnd_lock, pc, payload,
                   box, unbox_owner, unbox_disp, param, param_free, result, result_val,
                   invoke_rv, histVars, ub>>

\* the wrapped closure running the completion without asking the registry
CompletionRuns_Always(e) == TRUE

\* the closure spawn wraps around the completion (handler.rs 47-52): it runs the
\* completion only if remove_cancel_id(cancel_id) removed an entry
CompletionRuns(e) ==
    e \in Tasks => (mgr_live /\ Len(remove_cancel(pending, cancel_id[e])) # Len(pending))

\* wnd_proc taking every payload for an Invoke
IsPanic_Invoke(e) == FALSE

\* wnd_proc: match pack.payload { ..., MessagePayload::Panic(payload) => ... }
IsPanic(e) == payload[e] = "panic"

\* a window procedure that throws every report it has
SessionThrows_Always(pending_exception) == TRUE

\* wnd_proc, Invoke arm after a caught panic: if !session.has_exception() { pbx_throw!(..) }
SessionThrows(pending_exception) == ~pending_exception

\* a window procedure that looks at the object only
HandlerFlag_AliveOnly == alive

\* the second argument wnd_proc passes to the handler: alive.is_alive() && has_rx
HandlerFlag == alive /\ wnd.has_rx

\* wnd_proc: the payload is handled (context.rs 141-168) and nothing panics.  A Panic
\* payload is thrown into the session; for Invoke the handler closure of invoke is
\* called, which unpacks the parameter, runs the closure if the flag is true and
\* sends its result
wnd_proc_handle ==
    /\ ub # "abort"
    /\ wnd.st = "acked" /\ ~OwnerBlocked(bs_pc)
    /\ LET e == wnd.e
           flag == HandlerFlag
       IN
       /\ wnd' = [st |-> "idle", e |-> 0, has_rx |-> FALSE]
       /\ IF IsPanic(e)
          THEN /\ reports' = [reports EXCEPT ![e] = @ + 1]
               /\ exception' = TRUE
               /\ UNCHANGED <<owner_flag, param_free, result, result_val, pending,
                              ran, got>>
          ELSE /\ owner_flag' = [owner_flag EXCEPT ![e] = IF flag THEN "true" ELSE "false"]
               /\ param_free' = [param_free EXCEPT ![e] = @ + 1]
               /\ result' = [result EXCEPT ![e] =
                                IF @ = "open" THEN (IF flag THEN "some" ELSE "nil") ELSE @]
               /\ result_val' = [result_val EXCEPT ![e] =
                                    IF result[e] = "open" /\ flag
                                    THEN ClosureResult(param[e]) ELSE @]
               /\ IF flag /\ e \in Tasks
                  THEN pending' = remove_cancel(pending, cancel_id[e])
                  ELSE UNCHANGED pending
               /\ IF flag /\ CompletionRuns(e)
                  THEN /\ ran' = [ran EXCEPT ![e] = @ + 1]
                       /\ got' = [got EXCEPT ![e] = param[e]]
                  ELSE UNCHANGED <<ran, got>>
               /\ UNCHANGED <<reports, exception>>
    /\ UNCHANGED <<extVars, rtVars, full, alive, mgr_live, next_id, cancel_id, chanVars, window,
                   queue, hwnd_lock, pc, payload, box, unbox_owner, unbox_disp, param,
                   ack, invoke_rv, produced, ub, cancel_true, invoke_val, panicked,
                   retried>>

\* wnd_proc, Invoke arm: the caller's closure panics while it runs.  The handler
\* closure unwinds (its result sender is dropped unsent), catch_unwind stops the
\* panic, the report is thrown unless the session already has an exception, and
\* wnd_proc returns LRESULT(0)
wnd_proc_panic ==
    /\ ub # "abort"
    /\ wnd.st = "acked" /\ ~OwnerBlocked(bs_pc)
    /\ ~IsPanic(wnd.e)
    /\ HandlerFlag /\ CompletionRuns(wnd.e)
    /\ LET e == wnd.e IN
       /\ wnd' = [st |-> "idle", e |-> 0, has_rx |-> FALSE]
       /\ owner_flag' = [owner_flag EXCEPT ![e] = "true"]
       /\ param_free' = [param_free EXCEPT ![e] = @ + 1]
       /\ result' = [result EXCEPT ![e] = IF @ = "open" THEN "tx_dropped" ELSE @]
       /\ IF e \in Tasks
          THEN pending' = remove_cancel(pending, cancel_id[e])
          ELSE UNCHANGED pending
       /\ ran' = [ran EXCEPT ![e] = @ + 1]
       /\ got' = [got EXCEPT ![e] = param[e]]
       /\ panicked' = [panicked EXCEPT ![e] = @ + 1]
       /\ reports' = [reports EXCEPT ![e] = IF SessionThrows(exception) THEN @ + 1 ELSE @]
       /\ exception' = TRUE
    /\ UNCHANGED <<extVars, rtVars, full, alive, mgr_live, next_id, cancel_id, chanVars, window,
                   queue, hwnd_lock, pc, payload, box, unbox_owner, unbox_disp, param,
                   result_val, ack, invoke_rv, produced, ub, cancel_true, invoke_val,
                   retried>>

\* control is back in the host's script: the host raises the pending exception
\* and the session has none any more
host_exception ==
    /\ OwnerIdle
    /\ exception
    /\ exception' = FALSE
    /\ UNCHANGED <<extVars, rtVars, full, alive, regVars, chanVars, window, queue, hwnd_lock,
                   pc, envVars, invoke_rv, wnd, histVars, ub>>

\* ------------------------------------------ owner thread: cancel, teardown
\* cancel signalling the entry but leaving it in the list
cancel_KeepEntry(pend, id) ==
    LET idx == PositionId(pend, id) IN
    IF idx # 0 THEN [found |-> TRUE, ch |-> pend[idx].ch, pending |-> pend]
               ELSE [found |-> FALSE, ch |-> 0, pending |-> pend]

\* HandlerStateManager::cancel: the pending list and whether an entry was found
cancel(pend, id) ==
    LET idx == PositionId(pend, id) IN
    IF idx # 0 THEN [found |-> TRUE, ch |-> pend[idx].ch, pending |-> RemoveAt(pend, idx)]
               ELSE [found |-> FALSE, ch |-> 0, pending |-> pend]

\* CancelHandle::cancel: what a call on the token of task t does in this state
\* (self.mgr.upgrade() fails once the registry was dropped)
CancelCall(t) ==
    IF mgr_live THEN cancel(pending, cancel_id[t])
                ELSE [found |-> FALSE, ch |-> 0, pending |-> pending]

\* CancelHandle::cancel on the token of task t or one of its clones; a call that
\* returns false changes nothing, a call that returns true is counted in cancel_true
cancel_handle(t) ==
    /\ OwnerIdle
    /\ cancel_id[t] # -1
    /\ LET r == CancelCall(t) IN
       /\ pending' = r.pending
       /\ IF r.found
          THEN /\ sends' = [sends EXCEPT ![r.ch] = @ + 1]
               /\ signal' = [signal EXCEPT ![r.ch] = IF rx_closed[r.ch] THEN @ ELSE @ + 1]
               /\ cancel_true' = [cancel_true EXCEPT ![t] = @ + 1]
          ELSE UNCHANGED <<sends, signal, cancel_true>>
    /\ UNCHANGED <<extVars, rtVars, full, exception, alive, mgr_live, next_id, cancel_id, rx_closed, window, queue,
                   hwnd_lock, pc, envVars, invoke_rv, wnd, owner_flag, ran, got,
                   produced, reports, ub, invoke_val, panicked, retried>>

\* channels of the entries of a pending list
Channels(pend) == {pend[i].ch : i \in 1..Len(pend)}

\* a Drop that only clears the list
drop_sends_None(pend, snd) == snd

\* Drop for HandlerStateManager: tx.send(()) on every entry popped; the number of
\* send calls each channel has seen afterwards
drop_sends(pend, snd) ==
    [t \in Tasks |-> IF t \in Channels(pend) THEN snd[t] + 1 ELSE snd[t]]

\* the owner object is destroyed: its AliveState turns dead and Drop for
\* HandlerStateManager sends the signal to every entry left
destroy_object ==
    /\ OwnerIdle
    /\ alive
    /\ alive' = FALSE
    /\ mgr_live' = FALSE
    /\ pending' = <<>>
    /\ sends' = drop_sends(pending, sends)
    /\ signal' = [t \in Tasks |->
                    IF sends'[t] > sends[t] /\ ~rx_closed[t] THEN signal[t] + 1
                                                             ELSE signal[t]]
    /\ UNCHANGED <<extVars, rtVars, full, exception, next_id, cancel_id, rx_closed, window, queue,
                   hwnd_lock, pc, envVars, invoke_rv, wnd, histVars, ub>>

\* Drop for SyncContextInner: DestroyWindow; the messages still queued for the
\* window are discarded with it
destroy_context ==
    /\ OwnerIdle
    /\ window
    /\ window' = FALSE
    /\ queue' = <<>>
    /\ UNCHANGED <<extVars, rtVars, full, exception, alive, regVars, chanVars, hwnd_lock, pc, envVars, invoke_rv, wnd,
                   histVars, ub>>

\* ------------------------------------- contexts and the background runtime
\* spawn never finding a runtime in GLOBAL_RUNTIME
RuntimeIsNone_Always(rt) == TRUE

\* runtime::spawn: runtime.is_none()
RuntimeIsNone(rt) == rt = 0

\* a Drop that does not wait for the worker
StopReceived_NoWait(w) == TRUE

\* Drop for Runtime: stop_rx.blocking_recv() returns, the worker has sent on stop_tx
StopReceived(w) == w \in {"stopped", "exited"}

\* futures sent to the runtime of generation g
TasksOf(g) == {t \in RtTasks : task_gen[t] = g}

\* a current() that never finds the context it stored
CurrentIsNone_Always(st) == TRUE

\* SyncContext::current: current.is_none(), CURRENT_CONTEXT of the thread is empty
CurrentIsNone(st) == st = "none"

\* tuple of the runtime variables but ctx and the two counters of contexts
rtButCtx == <<atom_lock, cls, rt_lock, runtime, gen, worker, msg_open, rt_queue, task,
              task_gen, sd, returned>>

\* SyncContext::current on a thread that has its context: a clone of the handle in
\* CURRENT_CONTEXT is returned
current_clone(c) ==
    /\ ctx[c] = "live" /\ ~CurrentIsNone(ctx[c]) /\ sd[c] = "no"
    /\ handles[c] < MaxHandles
    /\ handles' = [handles EXCEPT ![c] = @ + 1]
    /\ UNCHANGED <<evVars, bsVars, xfer, http, reactorVars, ctx, context_count, rtButCtx>>

\* a handle returned by current() is dropped (Rc<SyncContextInner> loses one owner)
handle_drop(c) ==
    /\ handles[c] > 0
    /\ handles' = [handles EXCEPT ![c] = @ - 1]
    /\ UNCHANGED <<evVars, bsVars, xfer, http, reactorVars, ctx, context_count, rtButCtx>>

\* the message-only windows that exist: created by SyncContext::new and not yet
\* destroyed by Drop for SyncContextInner
Windows == Cardinality({c \in Ctxs : ctx[c] \in {"window", "live"}})

\* RegisterClassA for the class name pfwxWindowSyncCtx: the atom, or 0 when a class
\* of that name is still registered in the module
RegisterClassA(registered) == IF registered THEN 0 ELSE 1

\* UnregisterClassA: whether the class is registered afterwards; the call fails
\* and leaves it registered while a window of the class exists
UnregisterClassA(registered, windows) == registered /\ windows > 0

\* SyncContext::current finds CURRENT_CONTEXT empty and calls SyncContext::new: the
\* WINDOW_CLASS_ATOM mutex is taken, the class registered if the atom is 0 (a
\* failure panics with the guard held, which poisons the mutex), and the window
\* created
ctx_new_window(c) ==
    /\ ctx[c] \in {"none", "live"} /\ CurrentIsNone(ctx[c]) /\ sd[c] = "no"
    /\ atom_lock = 0
    /\ LET atom == IF cls.atom = 0 THEN RegisterClassA(cls.registered) ELSE cls.atom IN
       IF atom = 0
       THEN /\ cls' = [cls EXCEPT !.failed = TRUE]
            /\ atom_lock' = -1
            /\ UNCHANGED ctx
       ELSE /\ cls' = [cls EXCEPT !.atom = atom, !.registered = TRUE]
            /\ atom_lock' = c
            /\ ctx' = [ctx EXCEPT ![c] = "window"]
    /\ UNCHANGED <<extVars, reactorVars, context_count, rt_lock, runtime, gen, worker, msg_open,
                   rt_queue, task, task_gen, sd, returned>>

\* SyncContext::new: CONTEXT_COUNT.fetch_add(1), the context is bound and returned
ctx_new_count(c) ==
    /\ ctx[c] = "window"
    /\ context_count' = context_count + 1
    /\ atom_lock' = 0
    /\ ctx' = [ctx EXCEPT ![c] = "live"]
    /\ UNCHANGED <<extVars, reactorVars, cls, rt_lock, runtime, gen, worker, msg_open, rt_queue, task,
                   task_gen, sd, returned>>

\* Drop for SyncContextInner, run when the last handle (CURRENT_CONTEXT's own, at
\* thread exit) goes: DestroyWindow(self.hwnd)
ctx_drop_destroy(c) ==
    /\ ctx[c] = "live" /\ sd[c] = "no"
    /\ handles[c] = 0
    /\ ctx' = [ctx EXCEPT ![c] = "destroyed"]
    /\ UNCHANGED <<extVars, reactorVars, cls, context_count, atom_lock, rt_lock, runtime, gen, worker,
                   msg_open, rt_queue, task, task_gen, sd, returned>>

\* Drop for SyncContextInner: CONTEXT_COUNT.fetch_sub(1) == 1 ?
ctx_drop_sub(c) ==
    /\ ctx[c] = "destroyed"
    /\ context_count' = context_count - 1
    /\ ctx' = [ctx EXCEPT ![c] = IF context_count = 1 THEN "last" ELSE "none"]
    /\ UNCHANGED <<extVars, reactorVars, cls, atom_lock, rt_lock, runtime, gen, worker, msg_open,
                   rt_queue, task, task_gen, sd, returned>>

\* Drop for SyncContextInner, the last context: WINDOW_CLASS_ATOM is locked and the
\* window class unregistered; runtime::shutdown() follows with the mutex held
ctx_drop_lock(c) ==
    /\ ctx[c] = "last"
    /\ atom_lock = 0
    /\ atom_lock' = c
    /\ cls' = IF cls.atom # 0
              THEN [cls EXCEPT !.atom = 0,
                               !.registered = UnregisterClassA(@, Windows)]
              ELSE cls
    /\ ctx' = [ctx EXCEPT ![c] = "locked"]
    /\ UNCHANGED <<extVars, reactorVars, context_count, rt_lock, runtime, gen, worker, msg_open,
                   rt_queue, task, task_gen, sd, returned>>

\* runtime::spawn called on thread c for future t (Handler::spawn needs a context,
\* Handler::blocking_spawn none): lock GLOBAL_RUNTIME, start a runtime and its
\* worker thread if there is none, send the Task on msg_tx.  The send fails (and
\* spawn panics) only if the worker dropped msg_rx, which it does after msg_tx went.
rt_spawn(c, t) ==
    /\ ctx[c] \in {"none", "live"} /\ sd[c] = "no"
    /\ rt_lock = 0
    /\ task[t] = "new"
    /\ \A u \in RtTasks : u < t => task[u] # "new"
    /\ IF RuntimeIsNone(runtime)
       THEN /\ gen < MaxGen
            /\ gen' = gen + 1
            /\ runtime' = gen + 1
            /\ worker' = [worker EXCEPT ![gen + 1] = "loop"]
            /\ msg_open' = [msg_open EXCEPT ![gen + 1] = TRUE]
       ELSE UNCHANGED <<gen, runtime, worker, msg_open>>
    /\ rt_queue' = [rt_queue EXCEPT ![runtime'] = Append(@, t)]
    /\ task' = [task EXCEPT ![t] = "queued"]
    /\ task_gen' = [task_gen EXCEPT ![t] = runtime']
    /\ UNCHANGED <<extVars, reactorVars, cls, ctx, context_count, atom_lock, rt_lock, sd, returned>>

\* runtime::shutdown returns on thread c: GLOBAL_RUNTIME is unlocked; a context
\* teardown then leaves its block and unlocks WINDOW_CLASS_ATOM
ShutdownReturns(c) ==
    /\ sd' = [sd EXCEPT ![c] = "no"]
    /\ rt_lock' = 0
    /\ IF ctx[c] = "locked"
       THEN /\ ctx' = [ctx EXCEPT ![c] = "none"]
            /\ atom_lock' = 0
       ELSE UNCHANGED <<ctx, atom_lock>>

\* runtime::shutdown called on thread c, by pfwxFinalize or by the teardown of
\* the last context: lock GLOBAL_RUNTIME; with a runtime in it, *runtime = None
\* runs Drop for Runtime, which first drops msg_tx
shutdown(c) ==
    /\ ctx[c] \in {"none", "live", "locked"} /\ sd[c] = "no"
    /\ rt_lock = 0
    /\ IF runtime = 0
       THEN /\ ShutdownReturns(c)
            /\ UNCHANGED <<runtime, msg_open>>
       ELSE /\ rt_lock' = c
            /\ runtime' = 0
            /\ msg_open' = [msg_open EXCEPT ![runtime] = FALSE]
            /\ sd' = [sd EXCEPT ![c] = "check"]
            /\ UNCHANGED <<ctx, atom_lock>>
    /\ UNCHANGED <<extVars, reactorVars, cls, context_count, gen, worker, rt_queue, task, task_gen,
                   returned>>

\* Drop for Runtime: WaitForSingleObject(thread, 0); a thread that has ended is not
\* waited for
shutdown_check(c) ==
    /\ sd[c] = "check"
    /\ IF worker[gen] = "exited"
       THEN /\ ShutdownReturns(c)
            /\ returned' = [returned EXCEPT ![gen] = TRUE]
       ELSE /\ sd' = [sd EXCEPT ![c] = "wait"]
            /\ UNCHANGED <<ctx, atom_lock, rt_lock, returned>>
    /\ UNCHANGED <<extVars, reactorVars, cls, context_count, runtime, gen, worker, msg_open, rt_queue,
                   task, task_gen>>

\* Drop for Runtime: stop_rx.blocking_recv(), the sleep of 200 ms, and the return
shutdown_wait(c) ==
    /\ sd[c] = "wait"
    /\ StopReceived(worker[gen])
    /\ ShutdownReturns(c)
    /\ returned' = [returned EXCEPT ![gen] = TRUE]
    /\ UNCHANGED <<extVars, reactorVars, cls, context_count, runtime, gen, worker, msg_open, rt_queue,
                   task, task_gen>>

\* the run loop of worker g: msg_rx.recv() yields a Task, task::spawn_local(task)
worker_recv(g) ==
    /\ worker[g] = "loop"
    /\ rt_queue[g] # <<>>
    /\ task' = [task EXCEPT ![Head(rt_queue[g])] = "running"]
    /\ rt_queue' = [rt_queue EXCEPT ![g] = Tail(@)]
    /\ UNCHANGED <<extVars, reactorVars, cls, ctx, context_count, atom_lock, rt_lock, runtime, gen,
                   worker, msg_open, task_gen, sd, returned>>

\* a receiver that reports the end as soon as the sender is gone
RecvNone_Closed(q, open) == ~open

\* UnboundedReceiver::recv yields None only when every sender is dropped and no
\* message is left in the channel
RecvNone(q, open) == q = <<>> /\ ~open

\* the run loop of worker g: msg_rx.recv() yields None (msg_tx dropped, nothing
\* left), run_until returns and the thread goes on to rt.block_on(local)
worker_close(g) ==
    /\ worker[g] = "loop"
    /\ RecvNone(rt_queue[g], msg_open[g])
    /\ worker' = [worker EXCEPT ![g] = "drain"]
    /\ UNCHANGED <<extVars, reactorVars, cls, ctx, context_count, atom_lock, rt_lock, runtime, gen,
                   msg_open, rt_queue, task, task_gen, sd, returned>>

\* the LocalSet of the worker polls future t to its end
task_run(t) ==
    /\ task[t] = "running"
    /\ worker[task_gen[t]] \in {"loop", "drain"}
    /\ task' = [task EXCEPT ![t] = "done"]
    /\ UNCHANGED <<extVars, reactorVars, cls, ctx, context_count, atom_lock, rt_lock, runtime, gen,
                   worker, msg_open, rt_queue, task_gen, sd, returned>>

\* worker g: rt.block_on(local) returns when no local task is left, then
\* rt.shutdown_background() and stop_tx.send(())
worker_stop(g) ==
    /\ worker[g] = "drain"
    /\ \A t \in TasksOf(g) : task[t] = "done"
    /\ worker' = [worker EXCEPT ![g] = "stopped"]
    /\ UNCHANGED <<extVars, reactorVars, cls, ctx, context_count, atom_lock, rt_lock, runtime, gen,
                   msg_open, rt_queue, task, task_gen, sd, returned>>

\* the thread of worker g has ended
worker_exit(g) ==
    /\ worker[g] = "stopped"
    /\ worker' = [worker EXCEPT ![g] = "exited"]
    /\ UNCHANGED <<extVars, reactorVars, cls, ctx, context_count, atom_lock, rt_lock, runtime, gen,
                   msg_open, rt_queue, task, task_gen, sd, returned>>

\* ------------------------------------------------ Handler::blocking_spawn
\* the reactor state except the positions of the callers
reactorButPc == <<alive, regVars, chanVars, window, queue, hwnd_lock, envVars,
                  invoke_rv, wnd, histVars, ub, exception, full>>

\* the owner thread is inside the completion closure of a task: wnd_proc has called
\* the handler with true and remove_cancel_id found the entry
InClosure ==
    /\ wnd.st = "acked" /\ ub # "abort"
    /\ wnd.e \in Tasks /\ ~IsPanic(wnd.e)
    /\ HandlerFlag /\ CompletionRuns(wnd.e)

\* blocking_spawn is called on the owner thread, from the host's script or from
\* inside a completion closure: the oneshot is created, the wrapped future is handed
\* to runtime::spawn and the thread enters rx.blocking_recv()
blocking_spawn(where) ==
    /\ bs_pc = "none"
    /\ window
    /\ \/ where = "script" /\ OwnerIdle
       \/ where = "closure" /\ InClosure
    /\ bs_pc' = "blocked"
    /\ bs_where' = where
    /\ bs_fut' = "run"
    /\ bs_tx' = "open"
    /\ UNCHANGED <<evVars, handles, xfer, http, rtVars, reactorVars, bs_awaited, bs_rv, bs_val>>

\* a wrapper without catch_unwind
CatchUnwind_None(tx) == "dropped"

\* AssertUnwindSafe(fut).catch_unwind(): the panic is turned into
\* Err(SpawnBlockingError::Panic(info)), which is sent on tx
CatchUnwind(tx) == "panic"

\* the future of blocking_spawn completes on the worker: tx.send(Ok(rv))
bs_fut_resolve ==
    /\ bs_fut = "run"
    /\ bs_fut' = "done"
    /\ bs_tx' = "ok"
    /\ UNCHANGED <<evVars, handles, xfer, http, rtVars, reactorVars, bs_pc, bs_where, bs_awaited, bs_rv,
                   bs_val>>

\* the future of blocking_spawn panics on the worker
bs_fut_panic ==
    /\ bs_fut = "run"
    /\ bs_fut' = "panicked"
    /\ bs_tx' = CatchUnwind(bs_tx)
    /\ UNCHANGED <<evVars, handles, xfer, http, rtVars, reactorVars, bs_pc, bs_where, bs_awaited, bs_rv,
                   bs_val>>

\* the future of blocking_spawn requests a callback on the owner thread: it awaits
\* HandlerInvoker::invoke on an invoker bound to that thread
bs_fut_invoke ==
    /\ bs_fut = "run"
    /\ pc[AsyncInv] = "off"
    /\ pc' = [pc EXCEPT ![AsyncInv] = "idle"]
    /\ bs_fut' = "await"
    /\ bs_awaited' = TRUE
    /\ UNCHANGED <<evVars, handles, xfer, http, rtVars, reactorButPc, bs_pc, bs_where, bs_tx, bs_rv, bs_val>>

\* the invoke the future awaited has returned
bs_fut_resume ==
    /\ bs_fut = "await"
    /\ invoke_rv[AsyncInv] # "none"
    /\ bs_fut' = "run"
    /\ UNCHANGED <<evVars, handles, xfer, http, rtVars, reactorVars, bs_pc, bs_where, bs_awaited, bs_tx,
                   bs_rv, bs_val>>

\* a blocking_recv that returns without a value
BlockingRecv_NoWait(tx) == TRUE

\* rx.blocking_recv() returns when a value was sent or the sender was dropped
BlockingRecv(tx) == tx \in {"ok", "panic", "dropped"}

\* rx.blocking_recv().unwrap(): blocking_spawn returns what the wrapper sent; a
\* sender dropped unsent makes unwrap panic in the caller
blocking_spawn_return ==
    /\ bs_pc = "blocked"
    /\ BlockingRecv(bs_tx)
    /\ bs_pc' = "returned"
    /\ bs_rv' = CASE bs_tx = "ok" -> "Ok"
                  [] bs_tx = "panic" -> "Panic"
                  [] OTHER -> "Unwound"
    /\ bs_val' = IF bs_tx = "ok" THEN Value(0) ELSE 0
    /\ UNCHANGED <<evVars, handles, xfer, http, rtVars, reactorVars, bs_where, bs_fut, bs_awaited, bs_tx>>

\* ------------------------------------------- HTTP transfer progress callbacks
\* everything but the transfer
notXfer == <<reactorVars, rtVars, evVars, bsVars, handles, http>>

\* one of the two select! loops is running
InLoop == xfer.phase \in {"send", "recv"}

\* a tick that starts an invocation whatever tick_invoke holds
IsLeft_Always(ti) == TRUE

\* matches!(tick_invoke, Either::Left(_)): no progress invocation is outstanding
IsLeft(ti) == ti = "Left"

\* the progress invocations of this transfer the owner thread still has to answer:
\* those whose message is in its queue and the one created and not yet dispatched
Outstanding ==
    Len(xfer.queue) + (IF InLoop /\ xfer.inv = "new" THEN 1 ELSE 0)

\* the send loop's branch `res = &mut req`: the response head arrives and the
\* loop asks for the final progress callback, or the request fails
req_resolve(ok) ==
    /\ xfer.phase = "send" /\ xfer.req = "Left"
    /\ xfer' = IF ok
               THEN [xfer EXCEPT !.req = "Right", !.done_flag = "Invoke"]
               ELSE [xfer EXCEPT !.phase = "end", !.result = "send_error"]
    /\ UNCHANGED notXfer

\* a receive loop that returns at the end of the body whatever the flag says
MustWait_Never(flag) == FALSE

\* the end of the body does not return while the final progress callback is
\* still to be started or to be answered
MustWait(flag) == flag \in {"Invoke", "Invoking"}

\* the receive loop's branch `chunk = resp.chunk()`: a chunk, the end of the body
\* or an error
resp_chunk(kind) ==
    /\ xfer.phase = "recv"
    /\ CASE kind = "some" ->
              /\ ~xfer.eof /\ xfer.chunks < MaxChunks
              /\ xfer' = [xfer EXCEPT !.chunks = @ + 1]
         [] kind = "none" ->
              LET flag == IF xfer.done_flag = "Pending" THEN "Invoke" ELSE xfer.done_flag
              IN  xfer' = IF MustWait(flag)
                          THEN [xfer EXCEPT !.eof = TRUE, !.done_flag = flag]
                          ELSE [xfer EXCEPT !.eof = TRUE, !.phase = "end",
                                            !.result = "received"]
         [] OTHER ->
              /\ ~xfer.eof
              /\ xfer' = [xfer EXCEPT !.phase = "end", !.result = "receive_error"]
    /\ UNCHANGED notXfer

\* the branch `_ = tick_interval.tick()` of either loop: a new invocation is
\* created only when none is held; the one it replaces otherwise is dropped
tick ==
    /\ InLoop /\ xfer.ticks < MaxTicks
    /\ xfer' = IF IsLeft(xfer.tick_invoke)
               THEN [xfer EXCEPT !.ticks = @ + 1, !.tick_invoke = "Right",
                                 !.inv = "new", !.rv = "none",
                                 !.cur = xfer.started + 1, !.started = @ + 1,
                                 !.done_flag = IF @ = "Invoke" THEN "Invoking" ELSE @]
               ELSE [xfer EXCEPT !.ticks = @ + 1]
    /\ UNCHANGED notXfer

\* the first poll of the invocation held in tick_invoke: HandlerInvoker::invoke
\* answers TargetIsDead for a dead object and posts its message otherwise
tick_invoke_poll ==
    /\ InLoop /\ xfer.tick_invoke = "Right" /\ xfer.inv = "new"
    /\ xfer' = IF xfer.target
               THEN [xfer EXCEPT !.inv = "posted", !.queue = Append(@, xfer.cur)]
               ELSE [xfer EXCEPT !.inv = "ready", !.rv = "dead"]
    /\ UNCHANGED notXfer

\* the owner thread handles the oldest progress message: on_send / on_recv runs
\* for a live object and its return value, or the lack of one, goes to the sender
owner_handle(ret) ==
    /\ xfer.queue # <<>>
    /\ LET id == Head(xfer.queue)
           rv == IF xfer.target THEN ret ELSE "dead"
       IN  xfer' = IF id = xfer.cur /\ xfer.inv = "posted"
                   THEN [xfer EXCEPT !.queue = Tail(@), !.inv = "ready", !.rv = rv]
                   ELSE [xfer EXCEPT !.queue = Tail(@)]
    /\ UNCHANGED notXfer

\* the HTTP client object is destroyed on the owner thread
owner_destroy ==
    /\ xfer.target
    /\ xfer' = [xfer EXCEPT !.target = FALSE]
    /\ UNCHANGED notXfer

\* the branch `rv = &mut tick_invoke` of either loop: the slot is emptied, a
\* PREVENT or a dead target cancels the transfer, a panicking callback panics the
\* task, and the final callback of the send loop hands over to the receive loop
tick_invoke_ready ==
    /\ InLoop /\ xfer.tick_invoke = "Right" /\ xfer.inv = "ready"
    /\ LET emptied == [xfer EXCEPT !.tick_invoke = "Left", !.inv = "none", !.rv = "none"]
       IN  xfer' =
             CASE xfer.rv \in {"prevent", "dead"} ->
                    [emptied EXCEPT !.phase = "end", !.result = "cancelled"]
               [] xfer.rv = "panic" ->
                    [emptied EXCEPT !.phase = "end", !.result = "panic"]
               [] xfer.done_flag = "Invoking" /\ xfer.phase = "send" ->
                    [emptied EXCEPT !.phase = "recv", !.done_flag = "Pending"]
               [] xfer.done_flag = "Invoking" ->
                    [emptied EXCEPT !.done_flag = "Done"]
               [] OTHER -> emptied
    /\ UNCHANGED notXfer

\* ------------------------------------------- cancel_by_event and Win32Event
\* everything but the event
notEvVars == <<reactorVars, rtVars, bsVars, handles, xfer, http>>

\* the caller, on any thread, signals the event object (SetEvent)
SetEvent ==
    /\ ~e_signaled
    /\ e_signaled' = TRUE
    /\ UNCHANGED <<notEvVars, e_pc, e_fut, e_polls, e_event, e_closed, e_reg, e_wait,
                   e_box, e_frees, e_rx, e_result, e_ub>>

\* the guarded future becomes ready to resolve
fut_ready ==
    /\ e_fut = "pending"
    /\ e_fut' = "ready"
    /\ UNCHANGED <<notEvVars, e_pc, e_polls, e_signaled, e_event, e_closed, e_reg,
                   e_wait, e_box, e_frees, e_rx, e_result, e_ub>>

\* a select that polls the event before the future
SelectFirst_Event(fut, rx) == IF rx = "value" THEN "Right" ELSE IF fut = "ready" THEN "Left" ELSE "Pending"

\* future::select(fut, event): fut is polled first; what the poll of fut decides
SelectFirst(fut, rx) == IF fut = "ready" THEN "Left" ELSE "Pending"

\* cancel_by_event is polled: future::select polls fut; Either::Left gives Some(rv)
\* and drops the event, otherwise the event is polled next
cancel_by_event ==
    /\ e_pc = "idle" /\ e_result = "none"
    /\ e_polls < MaxPolls
    /\ LET first == SelectFirst(e_fut, e_rx) IN
       /\ e_polls' = IF first = "Right" THEN e_polls ELSE e_polls + 1
       /\ CASE first = "Left"  -> /\ e_fut' = "output"
                                  /\ e_result' = "Some"
                                  /\ e_pc' = "close"
                                  /\ UNCHANGED e_rx
            [] first = "Right" -> /\ e_fut' = "dropped"
                                  /\ e_result' = "None"
                                  /\ e_pc' = "close"
                                  /\ e_rx' = "taken"
            [] OTHER           -> /\ e_pc' = "mid"
                                  /\ UNCHANGED <<e_fut, e_result, e_rx>>
    /\ UNCHANGED <<notEvVars, e_signaled, e_event, e_closed, e_reg, e_wait, e_box,
                   e_frees, e_ub>>

\* Win32Event::poll: this.waiting is Some
IsRegistered(ev) == ev.waiting

\* Win32Event::poll, reached when fut was Pending.  With a wait registered the
\* oneshot is polled: Ready(Ok(())) makes cancel_by_event return None and drop fut.
\* Without one, RegisterWaitForSingleObject is called with a new box; when it fails
\* the box is freed and the Err makes cancel_by_event panic
Win32Event_poll ==
    /\ e_pc = "mid"
    /\ IF IsRegistered(e_event)
       THEN /\ IF e_rx = "value"
               THEN /\ e_rx' = "taken"
                    /\ e_result' = "None"
                    /\ e_fut' = "dropped"
                    /\ e_pc' = "close"
               ELSE /\ e_pc' = "idle"
                    /\ UNCHANGED <<e_rx, e_result, e_fut>>
            /\ UNCHANGED <<e_event, e_reg, e_wait, e_box, e_frees>>
       ELSE \E ok \in BOOLEAN :
              IF ok
              THEN /\ e_event' = [e_event EXCEPT !.waiting = TRUE]
                   /\ e_reg' = e_reg + 1
                   /\ e_wait' = "armed"
                   /\ e_box' = "boxed"
                   /\ e_rx' = "open"
                   /\ e_pc' = "idle"
                   /\ UNCHANGED <<e_frees, e_result, e_fut>>
              ELSE /\ e_box' = "freed"
                   /\ e_frees' = e_frees + 1
                   /\ e_rx' = "dropped"
                   /\ e_result' = "Panic"
                   /\ e_fut' = "dropped"
                   /\ e_pc' = "close"
                   /\ UNCHANGED <<e_event, e_reg, e_wait>>
    /\ UNCHANGED <<notEvVars, e_polls, e_signaled, e_closed, e_ub>>

\* the future returned by cancel_by_event is dropped between two polls: fut and
\* the event are dropped with it
cancel_by_event_drop ==
    /\ e_pc = "idle" /\ e_result = "none"
    /\ e_result' = "Dropped"
    /\ e_fut' = "dropped"
    /\ e_pc' = "close"
    /\ UNCHANGED <<notEvVars, e_polls, e_signaled, e_event, e_closed, e_reg, e_wait,
                   e_box, e_frees, e_rx, e_ub>>

\* Drop for Win32Event: CloseHandle only on a handle it owns; then its field
\* waiting is dropped, if there is one
Win32Event_drop ==
    /\ e_pc = "close"
    /\ e_closed' = e_event.owned
    /\ e_pc' = IF e_event.waiting THEN "unreg" ELSE "done"
    /\ UNCHANGED <<notEvVars, e_fut, e_polls, e_signaled, e_event, e_reg, e_wait,
                   e_box, e_frees, e_rx, e_result, e_ub>>

\* an unregistration that returns while the callback runs
UnregisterWaitEx_NoWait(w) == TRUE

\* UnregisterWaitEx(wait_object, INVALID_HANDLE_VALUE) returns only when no callback
\* of the wait is running
UnregisterWaitEx(w) == w # "running"

\* Drop for Waiting, first half: UnregisterWaitEx
Waiting_drop_unregister ==
    /\ e_pc = "unreg"
    /\ UnregisterWaitEx(e_wait)
    /\ e_wait' = IF e_wait = "running" THEN e_wait ELSE "unregistered"
    /\ e_pc' = "free"
    /\ UNCHANGED <<notEvVars, e_fut, e_polls, e_signaled, e_event, e_closed, e_reg,
                   e_box, e_frees, e_rx, e_result, e_ub>>

\* Drop for Waiting, second half: drop(Box::from_raw(self.tx)), then the field rx
Waiting_drop_free ==
    /\ e_pc = "free"
    /\ e_box' = "freed"
    /\ e_frees' = e_frees + 1
    /\ e_rx' = "dropped"
    /\ e_event' = [e_event EXCEPT !.waiting = FALSE]
    /\ e_pc' = "done"
    /\ UNCHANGED <<notEvVars, e_fut, e_polls, e_signaled, e_closed, e_reg, e_wait,
                   e_result, e_ub>>

\* the OS wait thread calls Waiting::callback: once (WT_EXECUTEONLYONCE), for an
\* armed wait whose event is signaled (the timeout is INFINITE)
Fires(w, signaled) == w = "armed" /\ signaled

\* Waiting::callback is entered on the wait thread
Waiting_callback ==
    /\ Fires(e_wait, e_signaled)
    /\ e_wait' = "running"
    /\ UNCHANGED <<notEvVars, e_pc, e_fut, e_polls, e_signaled, e_event, e_closed,
                   e_reg, e_box, e_frees, e_rx, e_result, e_ub>>

\* Waiting::callback: tx.take().unwrap().send(()).unwrap() through the box pointer
Waiting_callback_send ==
    /\ e_wait = "running"
    /\ e_wait' = "fired"
    /\ IF e_box = "boxed"
       THEN /\ e_rx' = IF e_rx = "open" THEN "value" ELSE e_rx
            /\ UNCHANGED e_ub
       ELSE /\ e_ub' = TRUE
            /\ UNCHANGED e_rx
    /\ UNCHANGED <<notEvVars, e_pc, e_fut, e_polls, e_signaled, e_event, e_closed,
                   e_reg, e_box, e_frees, e_result>>

\* ------------------------------------------------------------------ Next
OwnerPump ==
    \/ wnd_proc_unpack
    \/ wnd_proc_ack
    \/ wnd_proc_handle
    \/ wnd_proc_panic
    \/ host_exception

OwnerTeardown ==
    \/ destroy_object
    \/ destroy_context

\* the object spawns tasks with Handler::spawn
Init == InitWith(Tasks)

Next ==
    \/ \E t \in Tasks : spawn(t)
    \/ \E t \in Tasks : fut_resolve(t)
    \/ \E t \in Tasks : fut_panic(t)
    \/ \E t \in Tasks : cancel_observed(t)
    \/ \E t \in Tasks : invoke(t)
    \/ \E t \in Tasks : post_message(t)
    \/ \E t \in Tasks : dispatch_ack(t)
    \/ \E t \in Tasks : dispatch_poll(t)
    \/ \E t \in Tasks : invoke_result(t)
    \/ \E t \in Tasks : cancel_handle(t)
    \/ OwnerPump
    \/ OwnerTeardown

Spec == Init /\ [][Next]_vars

\* callers use HandlerInvoker::invoke and blocking_invoke directly
InitInvoke == InitWith({AsyncInv, BlockInv})

NextInvoke ==
    \/ \E p \in {AsyncInv, BlockInv} : invoke_start(p)
    \/ \E p \in {AsyncInv, BlockInv} : invoke(p)
    \/ \E p \in {AsyncInv, BlockInv} : post_message(p)
    \/ dispatch_ack(AsyncInv)
    \/ dispatch_poll(AsyncInv)
    \/ dispatch_blocking_recv(BlockInv)
    \/ dispatch_blocking_check(BlockInv)
    \/ \E p \in {AsyncInv, BlockInv} : invoke_result(p)
    \/ invoke_dropped(AsyncInv)
    \/ \E p \in {AsyncInv, BlockInv} : post_retry(p)
    \/ queue_fill
    \/ queue_drain
    \/ OwnerPump
    \/ OwnerTeardown

SpecInvoke == InitInvoke /\ [][NextInvoke]_vars

\* owner threads create and drop contexts, submit futures and shut the runtime down
InitRuntimeOnly == InitWith({})

NextRuntime ==
    \/ \E c \in Ctxs : ctx_new_window(c)
    \/ \E c \in Ctxs : ctx_new_count(c)
    \/ \E c \in Ctxs : ctx_drop_destroy(c)
    \/ \E c \in Ctxs : ctx_drop_sub(c)
    \/ \E c \in Ctxs : ctx_drop_lock(c)
    \/ \E c \in Ctxs, t \in RtTasks : rt_spawn(c, t)
    \/ \E c \in Ctxs : shutdown(c)
    \/ \E c \in Ctxs : shutdown_check(c)
    \/ \E c \in Ctxs : shutdown_wait(c)
    \/ \E g \in Gens : worker_recv(g)
    \/ \E g \in Gens : worker_close(g)
    \/ \E t \in RtTasks : task_run(t)
    \/ \E g \in Gens : worker_stop(g)
    \/ \E g \in Gens : worker_exit(g)

SpecRuntime == InitRuntimeOnly /\ [][NextRuntime]_vars

\* cancel_by_event alone: one guarded future, one event of the caller
NextEvent ==
    \/ SetEvent
    \/ fut_ready
    \/ cancel_by_event
    \/ Win32Event_poll
    \/ cancel_by_event_drop
    \/ Win32Event_drop
    \/ Waiting_drop_unregister
    \/ Waiting_drop_free
    \/ Waiting_callback
    \/ Waiting_callback_send

SpecEvent == InitRuntimeOnly /\ [][NextEvent]_vars

\* the same select over a future and a Win32Event that owns its handle
InitOwnedEvent == InitButEvent({}) /\ InitEventOf(take_raw)

SpecOwnedEvent == InitOwnedEvent /\ [][NextEvent]_vars

\* one task with a completion closure, and blocking_spawn on the owner thread with
\* a future that may request a callback on that thread
InitBlocking1 == InitWith({1})

NextBlocking ==
    \/ \E t \in Tasks : spawn(t)
    \/ \E t \in Tasks : fut_resolve(t)
    \/ invoke_start(AsyncInv)
    \/ \E p \in Tasks \cup {AsyncInv} : invoke(p)
    \/ \E p \in Tasks \cup {AsyncInv} : post_message(p)
    \/ \E p \in Tasks \cup {AsyncInv} : dispatch_ack(p)
    \/ \E p \in Tasks \cup {AsyncInv} : dispatch_poll(p)
    \/ \E p \in Tasks \cup {AsyncInv} : invoke_result(p)
    \/ wnd_proc_unpack
    \/ wnd_proc_ack
    \/ wnd_proc_handle
    \/ destroy_object
    \/ \E where \in {"script", "closure"} : blocking_spawn(where)
    \/ bs_fut_resolve
    \/ bs_fut_panic
    \/ bs_fut_invoke
    \/ bs_fut_resume
    \/ blocking_spawn_return

SpecBlocking == InitBlocking1 /\ [][NextBlocking]_vars

\* Handler::spawn has registered task t and has not yet handed the wrapped future
\* to runtime::spawn
MidSpawn(t) == pc[t] # "idle" /\ task[t] = "new"

\* the wrapped future of task t has run to its end
WrapperEnded(t) == pc[t] \in {"done", "cancelled", "unposted"}

\* what the owner thread does while it is not inside runtime::shutdown: it spawns
\* the task, cancels it, pumps messages, destroys the object or the window
OwnerStep ==
    \/ spawn(1)
    \/ MidSpawn(1) /\ rt_spawn(Owner, 1)
    \/ ~MidSpawn(1) /\ cancel_handle(1)
    \/ ~MidSpawn(1) /\ OwnerPump
    \/ ~MidSpawn(1) /\ OwnerTeardown

\* pfwxFinalize on the owner thread: runtime::shutdown() and Drop for Runtime
FinalizeStep ==
    \/ OwnerIdle /\ ~MidSpawn(1) /\ shutdown(Owner)
    \/ shutdown_check(Owner)
    \/ shutdown_wait(Owner)

\* the worker thread: its run loop, and the wrapped future of the task polled in
\* its LocalSet until the future has ended
WorkerStep ==
    \/ \E g \in Gens : worker_recv(g)
    \/ \E g \in Gens : worker_close(g)
    \/ \E g \in Gens : worker_stop(g)
    \/ \E g \in Gens : worker_exit(g)
    \/ WrapperEnded(1) /\ task_run(1)
    \/ task[1] = "running" /\ fut_resolve(1)
    \/ task[1] = "running" /\ fut_panic(1)
    \/ task[1] = "running" /\ cancel_observed(1)
    \/ invoke(1)
    \/ post_message(1)
    \/ dispatch_ack(1)
    \/ dispatch_poll(1)
    \/ invoke_result(1)

\* one spawned task, its worker, and the host calling pfwxFinalize on the owner
\* thread; the threads are scheduled fairly
NextFinalize == OwnerStep \/ FinalizeStep \/ WorkerStep

SpecFinalize ==
    InitBlocking1 /\ [][NextFinalize]_vars /\ WF_vars(WorkerStep) /\ WF_vars(FinalizeStep)

\* ------------------------------------------------ HttpClient pending requests
\* what AsyncSend, Cancel and CancelAll leave alone
httpFrame == <<evVars, bsVars, handles, xfer, rtVars, full, exception, alive, mgr_live, rx_closed,
               window, queue, hwnd_lock, envVars, invoke_rv, wnd, owner_flag, ran, got, produced,
               reports, ub, invoke_val, panicked, retried>>

\* a mutation of complete: a cancelled response is reported like any other
complete_Uncancelled(is_cancelled, is_alive) ==
    [on_result |-> TRUE, on_complete |-> is_alive]

\* HttpClient::complete: OnSuccess / OnError unless the response is a cancelled
\* one, then OnComplete if the object is still alive
complete(is_cancelled, is_alive) ==
    [on_result |-> ~is_cancelled, on_complete |-> is_alive]

\* the body Cancel and CancelAll share for one entry (id, hdl) taken out of the
\* map: if hdl.cancel() returns true, complete(id, cancelled response)
cancel_entry(st, t) ==
    LET r  == IF mgr_live THEN cancel(st.pending, cancel_id[t])
                          ELSE [found |-> FALSE, ch |-> 0, pending |-> st.pending]
        ev == complete(TRUE, alive)
    IN  IF r.found
        THEN [pending     |-> r.pending,
              sends       |-> [st.sends EXCEPT ![r.ch] = @ + 1],
              signal      |-> [st.signal EXCEPT ![r.ch] = IF rx_closed[r.ch] THEN @ ELSE @ + 1],
              cancel_true |-> [st.cancel_true EXCEPT ![t] = @ + 1],
              cancelled   |-> [st.cancelled EXCEPT ![t] = IF ev.on_complete THEN @ + 1 ELSE @],
              answered    |-> [st.answered EXCEPT ![t] = IF ev.on_result THEN @ + 1 ELSE @]]
        ELSE [st EXCEPT !.pending = r.pending]

\* the for loop of cancel_all over the entries taken out of the map
RECURSIVE CancelEach(_, _)
CancelEach(ts, st) ==
    IF ts = {} THEN st
    ELSE LET t == CHOOSE u \in ts : TRUE IN CancelEach(ts \ {t}, cancel_entry(st, t))

\* HttpRequest::async_send with request id `id`: Handler::spawn registers the task,
\* then push_pending inserts (id, cancel_hdl) and cancels the handle it replaced;
\* the ids are interchangeable, so the n-th new id the script uses is called n
async_send(t, id) ==
    /\ OwnerIdle
    /\ alive /\ mgr_live /\ window
    /\ pc[t] = "idle"
    /\ \A j \in ReqIds : j < id => \E u \in Tasks : http.id[u] = j
    /\ \A u \in Tasks : u < t => pc[u] # "idle"
    /\ cancel_id' = [cancel_id EXCEPT ![t] = next_id]
    /\ next_id' = next_id + 1
    /\ pc' = [pc EXCEPT ![t] = "run"]
    /\ LET old == http.map[id]
           reg == new_cancel_id(pending, rx_closed, next_id, t)
           r   == IF old # 0 THEN cancel(reg, cancel_id[old])
                             ELSE [found |-> FALSE, ch |-> 0, pending |-> reg]
       IN
       /\ pending' = r.pending
       /\ IF r.found
          THEN /\ sends' = [sends EXCEPT ![r.ch] = @ + 1]
               /\ signal' = [signal EXCEPT ![r.ch] = IF rx_closed[r.ch] THEN @ ELSE @ + 1]
               /\ cancel_true' = [cancel_true EXCEPT ![old] = @ + 1]
          ELSE UNCHANGED <<sends, signal, cancel_true>>
       /\ http' = [http EXCEPT !.map[id] = t, !.id[t] = id,
                               !.replaced = IF old # 0 THEN [@ EXCEPT ![old] = TRUE] ELSE @]
    /\ UNCHANGED httpFrame

\* HttpClient::cancel(id): E_DATA_NOT_FOUND when the map has no entry for id
http_cancel(id) ==
    /\ OwnerIdle
    /\ alive
    /\ http.map[id] # 0
    /\ LET st == cancel_entry([pending |-> pending, sends |-> sends, signal |-> signal,
                               cancel_true |-> cancel_true, cancelled |-> http.cancelled,
                               answered |-> http.answered], http.map[id])
       IN
       /\ pending' = st.pending
       /\ sends' = st.sends
       /\ signal' = st.signal
       /\ cancel_true' = st.cancel_true
       /\ http' = [http EXCEPT !.map[id] = 0, !.cancelled = st.cancelled, !.answered = st.answered]
    /\ UNCHANGED <<httpFrame, next_id, cancel_id, pc>>

\* HttpClient::cancel_all: the map is taken, every entry is cancelled
http_cancel_all ==
    /\ OwnerIdle
    /\ alive
    /\ \E i \in ReqIds : http.map[i] # 0
    /\ LET st == CancelEach({http.map[i] : i \in ReqIds} \ {0},
                            [pending |-> pending, sends |-> sends, signal |-> signal,
                             cancel_true |-> cancel_true, cancelled |-> http.cancelled,
                             answered |-> http.answered])
       IN
       /\ pending' = st.pending
       /\ sends' = st.sends
       /\ signal' = st.signal
       /\ cancel_true' = st.cancel_true
       /\ http' = [http EXCEPT !.map = [i \in ReqIds |-> 0],
                               !.cancelled = st.cancelled, !.answered = st.answered]
    /\ UNCHANGED <<httpFrame, next_id, cancel_id, pc>>

\* the tasks of one HttpClient that stays alive with its window: every task is
\* started by AsyncSend and its handle is reachable only through the pending map
NextHttp ==
    \/ \E t \in Tasks, i \in ReqIds : async_send(t, i)
    \/ \E i \in ReqIds : http_cancel(i)
    \/ http_cancel_all
    \/ \E t \in Tasks : fut_resolve(t)
    \/ \E t \in Tasks : fut_panic(t)
    \/ \E t \in Tasks : cancel_observed(t)
    \/ \E t \in Tasks : invoke(t)
    \/ \E t \in Tasks : post_message(t)
    \/ \E t \in Tasks : dispatch_ack(t)
    \/ \E t \in Tasks : invoke_result(t)
    \/ OwnerPump

SpecHttp == Init /\ [][NextHttp]_vars

\* owner threads call SyncContext::current, drop the handles and exit, while
\* futures are submitted and the runtime is started and shut down
NextContext ==
    \/ \E c \in Ctxs : current_clone(c)
    \/ \E c \in Ctxs : handle_drop(c)
    \/ NextRuntime

SpecContext == InitRuntimeOnly /\ [][NextContext]_vars

\* one HTTP request with progress callbacks: the send loop, then the receive loop,
\* the owner thread answering the progress messages and destroying the object
NextTransfer ==
    \/ \E ok \in BOOLEAN : req_resolve(ok)
    \/ \E kind \in {"some", "none", "err"} : resp_chunk(kind)
    \/ tick
    \/ tick_invoke_poll
    \/ \E ret \in {"ok", "prevent", "panic"} : owner_handle(ret)
    \/ owner_destroy
    \/ tick_invoke_ready

SpecTransfer == InitRuntimeOnly /\ [][NextTransfer]_vars


\* ============================================================= properties
DirectInvokers == {AsyncInv, BlockInv}

InQueue(p) == \E i \in 1..Len(queue) : queue[i] = p

\* the dispatcher of p still holds the raw pointer of its envelope
DispatcherHolds(p) == pc[p] \in {"retry", "wait", "bwait", "bcheck"}

\* C1: no envelope is unpacked both by the owner thread's window procedure and by
\* the dispatcher's own failure path.
C1_NoDoubleUnbox ==
    \A p \in Procs : ~(unbox_owner[p] >= 1 /\ unbox_disp[p] >= 1)

\* C2: no envelope is leaked.  Stated so that a finite run refutes it: an envelope
\* that was packed and never unpacked is still reachable by somebody who will unpack
\* it, the owner queue or the dispatcher waiting for its acknowledgment.
C2_NoLeak ==
    \A p \in Procs : box[p] = "boxed" => (InQueue(p) \/ DispatcherHolds(p))

\* C3: cancellation and completion delivery are mutually exclusive: a task whose
\* cancel() returned true never has its completion closure run, and the completion
\* closure of any task runs at most once.
C3_Exclusive ==
    \A t \in Tasks : ran[t] <= 1 /\ (cancel_true[t] >= 1 => ran[t] = 0)

\* C3 witness: cancel() returned true after the future had resolved, the completion
\* message was then pumped with the object alive, and the completion did not run
C3_Witness ==
    \E t \in Tasks : /\ cancel_true[t] = 1
                     /\ produced[t] # 0
                     /\ owner_flag[t] = "true"
                     /\ ran[t] = 0

\* C4: a task that resolved normally and was never cancelled is delivered: once the
\* owner thread has pumped its message with the object and the context alive, its
\* completion closure has run exactly once with the value the future produced.
C4_AlwaysDelivered ==
    \A t \in Tasks :
        (owner_flag[t] = "true" /\ cancel_true[t] = 0)
            => (ran[t] = 1 /\ got[t] = produced[t])

\* C5: liveness is checked at execution time: when the owner object was destroyed
\* after the envelope was posted and before the owner thread pumped it, the owner
\* thread's unpack is the only unpack of the envelope (no crash results) and the
\* closure does not run.
C5_LivenessAtExecution ==
    \A p \in Procs :
        (payload[p] = "invoke" /\ ~alive /\ unbox_owner[p] >= 1 /\ owner_flag[p] # "true")
            => (unbox_owner[p] + unbox_disp[p] = 1 /\ ran[p] = 0)

\* C6: destroying the owner object cancels everything in flight: the step that
\* drops the registry sends the signal on every entry left (it reaches every
\* receiver not yet closed) and empties the registry, and from then on no
\* completion closure of the object runs.
C6_DestroyCancelsAll ==
    [][ /\ (alive /\ ~alive') =>
              /\ pending' = <<>>
              /\ \A i \in 1..Len(pending) :
                    /\ sends'[pending[i].ch] = sends[pending[i].ch] + 1
                    /\ ~rx_closed[pending[i].ch] => signal'[pending[i].ch] >= 1
        /\ ~alive => ran' = ran
      ]_vars

\* C6 witness: the object is dead; one task had resolved and was waiting in the
\* owner queue (its message was pumped afterwards, the completion did not run),
\* another was still running and ended on the signal the drop sent
C6_Witness ==
    /\ ~alive
    /\ \E t \in Tasks : /\ produced[t] # 0 /\ owner_flag[t] = "false" /\ ran[t] = 0
    /\ \E u \in Tasks : /\ pc[u] = "cancelled" /\ sends[u] = 1 /\ cancel_true[u] = 0

\* C7: a panic of a spawned future is contained: one envelope with the panic
\* report is dispatched and unpacked at most once, the owner thread throws the
\* report exactly once when it handles it, and the completion closure never runs.
C7_PanicContained ==
    \A t \in Tasks :
        payload[t] = "panic" =>
            /\ ran[t] = 0
            /\ param[t] = 0
            /\ reports[t] <= 1
            /\ unbox_owner[t] + unbox_disp[t] <= 1
            /\ (unbox_owner[t] = 1 /\ wnd.e # t) => reports[t] = 1

\* C7 witness: the report of a panicked task was thrown, a task spawned after the
\* panic took over its registry entry, ran and was delivered with its value
C7_Witness ==
    \E t, u \in Tasks :
        /\ payload[t] = "panic" /\ reports[t] = 1 /\ cancel_true[t] = 0
        /\ mgr_live /\ PositionId(pending, cancel_id[t]) = 0
        /\ cancel_id[u] > cancel_id[t]
        /\ ran[u] = 1 /\ got[u] = Value(u)

\* C8: a token of a task whose completion closure was delivered reports "already
\* finished": cancel() on it returns false and leaves the registry as it is.
C8_AlreadyFinished ==
    \A t \in Tasks :
        ran[t] >= 1 => (~CancelCall(t).found /\ CancelCall(t).pending = pending)

\* C8 witness: task 1 was delivered, a newer task holds the first registry
\* position, and the owner thread is free to call cancel() on the old token
C8_Witness ==
    /\ ran[1] = 1
    /\ OwnerIdle /\ mgr_live
    /\ Len(pending) >= 1
    /\ \E u \in Tasks : u > 1 /\ pending[1].ch = u /\ pc[u] = "run"

\* C9: cancel is idempotent: each slot's sender is used at most once, cancel()
\* returns true at most once per token, and a cancel() after one that returned
\* true, after the completion was delivered or after the registry was dropped
\* returns false and changes no registry entry.
C9_IdempotentCancel ==
    \A t \in Tasks :
        /\ sends[t] <= 1
        /\ cancel_true[t] <= 1
        /\ (cancel_true[t] >= 1 \/ ran[t] >= 1 \/ ~mgr_live)
              => (~CancelCall(t).found /\ CancelCall(t).pending = pending)

\* C9 witness: cancel() returned true for one task while another task's entry is
\* still registered, and the owner thread is free to call cancel() again
C9_Witness ==
    \E t \in Tasks : /\ cancel_true[t] = 1 /\ sends[t] = 1
                     /\ OwnerIdle /\ mgr_live /\ Len(pending) >= 1

\* C10: invoke and blocking_invoke return Err(TargetIsDead) without the closure
\* having run, exactly when the object was dead at the call (no envelope), the
\* dispatch failed, or the owner thread passed alive = false to the handler.
C10_TargetDeadCases ==
    \A p \in DirectInvokers :
        invoke_rv[p] # "none" =>
            /\ invoke_rv[p] = "TargetIsDead" <=>
                  (payload[p] = "none" \/ unbox_disp[p] >= 1 \/ owner_flag[p] = "false")
            /\ invoke_rv[p] = "TargetIsDead" => ran[p] = 0

\* a step in which the closure of caller p panics on the owner thread
ClosurePanics(p) == panicked'[p] > panicked[p]

\* C11 (state part): a caller whose closure panicked on the owner thread had its
\* closure started once, the report was thrown at most once, and its invoke, if it
\* has returned, returned Err(Panic), never Ok and never Err(TargetIsDead).
PanicSeenByInvoke ==
    \A p \in Procs \ {BlockInv} :
        panicked[p] >= 1 =>
            /\ panicked[p] = 1 /\ ran[p] = 1
            /\ reports[p] <= 1
            /\ invoke_rv[p] \in {"none", "Panic"}
            /\ invoke_val[p] = 0

C12_OkMeansClosureRan ==
    /\ [](\A p \in DirectInvokers :
            invoke_rv[p] = "Ok" =>
                /\ ran[p] = 1 /\ panicked[p] = 0
                /\ owner_flag[p] = "true"
                /\ got[p] = Value(p)
                /\ invoke_val[p] = ClosureResult(Value(p))
                /\ wnd.e # p)
    /\ [][\A p \in DirectInvokers : ran'[p] > ran[p] => (alive /\ OwnerIdle')]_vars

\* C12 witness: invoke returned Ok with the closure's value, and the blocking
\* caller's dispatch has returned on the acknowledgment while the owner thread has
\* not yet called its handler: blocking_invoke is waiting for the result
C12_Witness ==
    /\ invoke_rv[AsyncInv] = "Ok"
    /\ invoke_val[AsyncInv] = ClosureResult(Value(AsyncInv))
    /\ pc[BlockInv] = "result" /\ invoke_rv[BlockInv] = "none"
    /\ wnd.st = "acked" /\ wnd.e = BlockInv /\ ran[BlockInv] = 0

\* C13: when posting the envelope fails for a reason other than a full queue, the
\* dispatcher itself has unpacked the envelope (once, and nobody else does), has
\* called the handler once with false (the parameter box is released once, None is
\* on the result channel, invoke returns Err(TargetIsDead)), no message of the
\* envelope is in the owner queue and the closure has not run.
C13_PostFailureSelfDelivers ==
    \A p \in Procs :
        pc[p] = "unposted" =>
            /\ box[p] = "freed"
            /\ unbox_disp[p] = 1 /\ unbox_owner[p] = 0
            /\ ~InQueue(p)
            /\ hwnd_lock # p
            /\ ran[p] = 0 /\ panicked[p] = 0 /\ owner_flag[p] = "none"
            /\ payload[p] = "invoke" =>
                  /\ param_free[p] = 1
                  /\ result[p] = "nil"
                  /\ invoke_rv[p] = "TargetIsDead"
            /\ payload[p] = "panic" => param_free[p] = 0

\* C13 witness: the context window was destroyed with the object alive, invoke
\* went on to post and the post failed; the other caller's message was pumped
\* before the window went and its closure ran
C13_Witness ==
    /\ alive /\ ~window
    /\ \E p, q \in DirectInvokers :
          /\ pc[p] = "unposted" /\ payload[p] = "invoke"
          /\ invoke_rv[q] = "Ok"

\* C14: a full owner queue is never surfaced as a failure.  While the dispatcher
\* retries, the envelope is packed, untouched and held by it (hwnd lock included)
\* and nothing was returned; the retry ends by posting that envelope once the
\* queue has room, or by the hard failure of a destroyed window; and no post ever
\* fails while the window exists, however full the queue is.
C14_QueueFullRetried ==
    /\ [](\A p \in Procs :
            pc[p] = "retry" =>
                /\ retried[p]
                /\ box[p] = "boxed" /\ ack[p] = "open"
                /\ unbox_disp[p] = 0 /\ unbox_owner[p] = 0 /\ param_free[p] = 0
                /\ ~InQueue(p) /\ hwnd_lock = p
                /\ invoke_rv[p] = "none")
    /\ [][\A p \in Procs :
            /\ (pc[p] = "retry" /\ pc'[p] # "retry") =>
                  \/ /\ window /\ ~full
                     /\ pc'[p] = WaitPc(p)
                     /\ queue' = Append(queue, p)
                     /\ box'[p] = "boxed" /\ param'[p] = param[p]
                  \/ ~window /\ pc'[p] = "unposted"
            /\ (pc[p] # "unposted" /\ pc'[p] = "unposted") => ~window]_vars

\* C14 witness: the first post of invoke met a full queue, the envelope was posted
\* again when the queue had room, and invoke returned Ok with the closure's value
C14_Witness ==
    /\ retried[AsyncInv]
    /\ invoke_rv[AsyncInv] = "Ok"
    /\ invoke_val[AsyncInv] = ClosureResult(Value(AsyncInv))
    /\ unbox_owner[AsyncInv] = 1 /\ unbox_disp[AsyncInv] = 0

\* C15: in the async and in the blocking dispatch, when the aliveness re-poll finds
\* the target object dead or the context window gone and the acknowledgment has
\* arrived by then, the dispatch returns true and does not touch the envelope.
C15_LastCheckBeforeFailure ==
    [][\A p \in Procs :
          (/\ pc[p] \in {"wait", "bcheck"}
           /\ TargetGone(p) /\ ack[p] = "sent"
           /\ pc'[p] \notin {pc[p], "dropped"})
          => /\ pc'[p] = AfterAck(p)
             /\ unbox_disp'[p] = unbox_disp[p]
             /\ box'[p] = box[p]
             /\ invoke_rv'[p] = invoke_rv[p]]_vars

\* a runtime was torn down by a shutdown that has returned, and none exists now
TornDown == runtime = 0 /\ rt_lock = 0 /\ \E g \in Gens : returned[g]

\* C16: a runtime::spawn call made after shutdown() has torn the runtime down does
\* not start a new worker thread and does not hand its future to any worker.
C16_SpawnAfterShutdownFatal ==
    [][TornDown => (gen' = gen /\ worker' = worker /\ rt_queue' = rt_queue)]_vars

\* workers that have sent their stop signal
Stopped(g) == worker[g] \in {"stopped", "exited"}

C18_SingleRuntime ==
    /\ [](/\ Cardinality({g \in Gens : worker[g] \in {"loop", "drain"}}) <= 1
          /\ runtime # 0 => (runtime = gen /\ worker[gen] = "loop" /\ msg_open[gen])
          /\ \A g \in Gens : g > gen => worker[g] = "none")
    /\ [][gen' # gen =>
            /\ gen' = gen + 1 /\ runtime = 0 /\ runtime' = gen'
            /\ \A g \in 1..gen : Stopped(g)]_vars

\* C18 witness: a second worker runs (with a future of its own) after the first
\* one, which had run a future, was shut down
C18_Witness ==
    /\ gen = 2 /\ runtime = 2 /\ worker[2] = "loop"
    /\ Stopped(1)
    /\ \E t, u \in RtTasks : /\ task_gen[t] = 1 /\ task[t] = "done"
                             /\ task_gen[u] = 2 /\ task[u] = "running"

\* C19: whenever a shutdown triggered by the teardown of a context is tearing the
\* runtime down, no context is alive.
C19_ShutdownOnlyAfterLastContext ==
    \A c \in Ctxs :
        (ctx[c] = "locked" /\ sd[c] # "no") => \A d \in Ctxs : ctx[d] # "live"


\* a spawned task that is neither cancelled, nor delivered to the owner thread, nor
\* panicked
TaskPending(t) ==
    /\ cancel_id[t] # -1
    /\ sends[t] = 0 /\ signal[t] = 0 /\ pc[t] # "cancelled"
    /\ owner_flag[t] = "none"
    /\ payload[t] # "panic"

\* C20: when new_cancel_handle registers another task, an entry is overwritten only
\* if its channel is closed, the entry of every task that is neither cancelled, nor
\* delivered, nor panicked stays where it is, and with no closed entry in the list
\* the new entry is appended.
C20_OverwriteOnlyClosed ==
    [][next_id' # next_id =>
          /\ Len(pending') >= Len(pending)
          /\ \A i \in 1..Len(pending) :
                /\ pending'[i] # pending[i] => rx_closed[pending[i].ch]
                /\ TaskPending(pending[i].ch) => pending'[i] = pending[i]
          /\ (\A i \in 1..Len(pending) : ~rx_closed[pending[i].ch]) =>
                /\ Len(pending') = Len(pending) + 1
                /\ pending'[Len(pending')].id = next_id]_vars

\* a spawned task whose inner future has neither resolved, nor panicked, nor been
\* dropped on a cancellation signal
Unresolved(t) == pc[t] = "run" /\ signal[t] = 0

\* C21: the registry never holds more entries than tasks of the object were
\* unresolved at the same time: the list grows only in a step after which it is no
\* longer than the number of tasks unresolved then; and a task whose cancel()
\* returned true has no entry in the registry.
C21_RegistryBounded ==
    /\ [](\A t \in Tasks : cancel_true[t] > 0 => t \notin Channels(pending))
    /\ [][Len(pending') > Len(pending) =>
            Len(pending') <= Cardinality({t \in Tasks : pc'[t] = "run" /\ signal'[t] = 0})]_vars

\* C21 witness: the second of two tasks spawned one after the other took over the
\* entry of the first, whose future had panicked; the registry holds one entry
C21_Witness ==
    /\ next_id = 2 /\ Len(pending) = 1
    /\ pending[1] = [id |-> 1, ch |-> 2]
    /\ payload[1] = "panic" /\ pc[2] = "run"

\* C22: cancel_by_event gives Some only with the output of the guarded future, and
\* None only after the callback of the signaled event ran, with the future dropped;
\* a future found ready by a poll wins over an event that has fired; once the result
\* is decided the future is not polled again; and the caller's event handle is
\* never closed.
C22_CancelByEvent ==
    /\ [](/\ e_result = "Some" => e_fut = "output"
          /\ e_result = "None" => (e_fut = "dropped" /\ e_signaled)
          /\ ~e_closed)
    /\ [][/\ e_result # "none" => (e_polls' = e_polls /\ e_result' = e_result)
          /\ (e_result = "none" /\ e_result' = "None") => e_wait = "fired"
          /\ (e_pc = "idle" /\ e_fut = "ready" /\ e_result' \notin {"none", "Dropped"})
                => e_result' = "Some"]_vars

\* C22 witness: the future was ready and the event had fired before the same poll;
\* cancel_by_event gave Some and dropped the event
C22_Witness ==
    /\ e_result = "Some" /\ e_pc = "close"
    /\ e_wait = "fired" /\ e_rx = "value"

\* C23: the OS wait of a Win32Event is registered at most once; the box handed to
\* the callback is freed at most once, never while the wait is armed or its callback
\* runs, and the callback never uses a freed box; when the future has been dropped
\* the wait is deregistered and a box that was allocated has been freed exactly once,
\* whether registration failed, the event fired or it never fired.
C23_WaitRegisteredOnceBoxFreedOnce ==
    /\ e_reg <= 1 /\ e_frees <= 1 /\ ~e_ub
    /\ e_box = "freed" => e_wait \notin {"armed", "running"}
    /\ e_pc = "done" =>
          /\ e_wait \in {"none", "unregistered"}
          /\ e_box # "boxed"
          /\ e_frees = (IF e_box = "none" THEN 0 ELSE 1)

\* C23 witness: the future was dropped with its wait registered and the event never
\* signaled; the wait is deregistered and the box freed
C23_Witness ==
    /\ e_pc = "done" /\ e_reg = 1 /\ ~e_signaled
    /\ e_wait = "unregistered" /\ e_box = "freed" /\ e_frees = 1

\* the future of blocking_spawn has finished, normally or by a panic
BsFinished == bs_fut \in {"done", "panicked"}

\* C24: blocking_spawn keeps the calling thread blocked until its future has
\* finished on the worker: it returns Ok with the future's value exactly when the
\* future completed normally and Err(Panic) exactly when it panicked, the panic
\* never unwinds into the caller, and while the call is blocked the owner thread
\* leaves wnd_proc, the registry and the object as they are.
C24_BlockingSpawnResult ==
    /\ [](/\ bs_pc = "returned" => BsFinished
          /\ bs_rv = "Ok" <=> (bs_pc = "returned" /\ bs_fut = "done")
          /\ bs_rv = "Ok" => bs_val = Value(0)
          /\ bs_rv = "Panic" <=> (bs_pc = "returned" /\ bs_fut = "panicked")
          /\ bs_rv # "Unwound")
    /\ [][(bs_pc = "blocked" /\ bs_pc' = "blocked") =>
             /\ wnd' = wnd /\ alive' = alive /\ pending' = pending /\ ran' = ran
             /\ Len(queue') >= Len(queue)]_vars

\* C24 witness: blocking_spawn called from the host's script returned Err(Panic)
\* for a future that panicked on the worker
C24_Witness == bs_where = "script" /\ bs_rv = "Panic" /\ bs_fut = "panicked"

\* C25: a blocking_spawn call made from inside a completion closure never returns.
C25_ClosureCallDeadlocks == bs_where = "closure" => bs_pc # "returned"

\* C25, as the code has it: a blocking_spawn call made from inside a completion
\* closure keeps the closure and the owner thread's loop stopped until its future
\* has finished, and returns only for a future that finished without awaiting a
\* callback on the owner thread.
C25_ClosureCallBlocksUntilDone ==
    /\ []((bs_where = "closure" /\ bs_pc = "returned") => (BsFinished /\ ~bs_awaited))
    /\ [][(bs_where = "closure" /\ bs_pc = "blocked" /\ bs_pc' = "blocked") =>
             (wnd' = wnd /\ ran' = ran /\ Len(queue') >= Len(queue))]_vars

\* C25 witness: blocking_spawn was called inside the completion closure of task 1
\* and has returned Ok while that closure has not yet ended
C25_Witness ==
    /\ bs_where = "closure" /\ bs_pc = "returned" /\ bs_rv = "Ok"
    /\ wnd.st = "acked" /\ wnd.e = 1 /\ ran[1] = 0

\* C28: when the future of blocking_spawn awaits a callback on the owner thread and
\* the object is alive, blocking_spawn does not return.
C28_CallbackInBlockingSpawnDeadlocks ==
    (bs_awaited /\ alive) => (bs_pc = "blocked" /\ bs_fut = "await" /\ ran[AsyncInv] = 0)

\* C28 witness: the owner thread is blocked, the envelope of the future's invoke is
\* in the queue of the live object's window and the dispatch waits for it
C28_Witness ==
    /\ bs_pc = "blocked" /\ bs_fut = "await" /\ alive
    /\ InQueue(AsyncInv) /\ pc[AsyncInv] = "wait"

\* C26: cancellation takes effect: a task whose cancel_rx received the signal, from
\* a cancel() that returned true or from the drop of the registry, while its inner
\* future was unresolved, never dispatches an envelope: it has built no payload and
\* no envelope, its closure never runs, and it is still at its select! or has ended
\* cancelled.
C26_CancelTakesEffect ==
    \A t \in Tasks :
        signal[t] > 0 =>
            /\ payload[t] = "none" /\ box[t] = "none"
            /\ pc[t] \in {"run", "cancelled"}
            /\ ran[t] = 0

\* contexts that were counted by SyncContext::new and not yet uncounted by their Drop
Counted == {c \in Ctxs : ctx[c] \in {"live", "destroyed"}}

\* C27: SyncContext::current is a per-thread singleton: every handle a thread holds
\* refers to the one live context of that thread, a call that finds the context
\* creates no window and leaves the count alone, and CONTEXT_COUNT equals the number
\* of contexts that exist (counted by new, not yet uncounted by their Drop).
C27_PerThreadSingleton ==
    /\ [](/\ context_count = Cardinality(Counted)
          /\ \A c \in Ctxs : handles[c] > 0 => ctx[c] = "live")
    /\ [][\A c \in Ctxs :
            /\ handles'[c] > handles[c] => (ctx' = ctx /\ context_count' = context_count)
            /\ (ctx[c] = "live" /\ ctx'[c] # "live") => handles[c] = 0]_vars

\* C27 witness: two threads have a context each; the first called current() twice
\* more and holds two handles to its context
C27_Witness ==
    /\ context_count = 2 /\ ctx[1] = "live" /\ ctx[2] = "live"
    /\ handles[1] = 2 /\ handles[2] = 0

\* C29: a task ends in one terminal state only, and cancel() returns true only for
\* a task that has not reached one: no task both ran its completion closure and
\* panicked, or ran it and had a cancel() return true; and for a task whose
\* completion was delivered or whose panic was reported, cancel() on its token
\* returns false.
C29_CancelOnlyBeforeTerminal ==
    \A t \in Tasks :
        /\ ~(ran[t] >= 1 /\ payload[t] = "panic")
        /\ ~(ran[t] >= 1 /\ cancel_true[t] >= 1)
        /\ (ran[t] >= 1 \/ (payload[t] = "panic" /\ reports[t] >= 1)) => ~CancelCall(t).found

\* C30: the progress callbacks of one HTTP transfer are throttled: at most one
\* progress invocation of the request is outstanding at the owner thread at any
\* time, and a timer tick that finds tick_invoke occupied starts none.
C30_ProgressThrottled ==
    /\ [](Outstanding <= 1)
    /\ [][(xfer.tick_invoke = "Right" /\ xfer'.ticks = xfer.ticks + 1)
            => (xfer'.started = xfer.started /\ xfer'.queue = xfer.queue
                /\ xfer'.cur = xfer.cur)]_vars

\* two ticks have fired, the second while the invocation the first one started
\* was outstanding; that invocation is now in the owner's queue and no other is
C30_Witness ==
    /\ xfer.ticks >= 2 /\ xfer.started = 1
    /\ xfer.tick_invoke = "Right" /\ xfer.queue = <<1>>

\* C31: a transfer with progress reporting returns its successful result only
\* after a final progress callback has completed: within one loop the done flag
\* moves only Pending -> Invoke -> Invoking -> Done; Invoking is entered only by a
\* tick that starts an invocation after the request or the body ended and an
\* invocation is held as long as the flag is Invoking; Done is entered, and the
\* send loop returns its response, only when the held invocation has returned
\* normally; the received body is returned only with the flag at Done; a callback
\* that returns PREVENT or finds the target dead ends the transfer as cancelled.
C31_FinalCallbackBeforeResult ==
    /\ []((InLoop /\ xfer.done_flag = "Invoking") => xfer.tick_invoke = "Right")
    /\ [][LET f == xfer.done_flag
              g == xfer'.done_flag
              answered == xfer.tick_invoke = "Right" /\ xfer.inv = "ready"
                          /\ xfer'.tick_invoke = "Left"
          IN  /\ (xfer'.phase = xfer.phase /\ g # f)
                    => <<f, g>> \in {<<"Pending", "Invoke">>, <<"Invoke", "Invoking">>,
                                    <<"Invoking", "Done">>}
              /\ (g = "Invoking" /\ f # "Invoking")
                    => /\ xfer'.started = xfer.started + 1
                       /\ xfer'.ticks = xfer.ticks + 1
                       /\ IF xfer.phase = "send" THEN xfer.req = "Right" ELSE xfer.eof
              /\ (g = "Done" /\ f # "Done") => (answered /\ xfer.rv = "ok")
              /\ (xfer.phase = "send" /\ xfer'.phase = "recv")
                    => (f = "Invoking" /\ answered /\ xfer.rv = "ok")
              /\ (xfer.result = "none" /\ xfer'.result = "received")
                    => (f = "Done" /\ xfer.eof)
              /\ (answered /\ xfer.rv \in {"prevent", "dead"})
                    => (xfer'.phase = "end" /\ xfer'.result = "cancelled")]_vars

\* the body was received in full and handed back after the final progress
\* callback of the send loop and the final one of the receive loop, and no other
C31_Witness ==
    /\ xfer.result = "received" /\ xfer.chunks = MaxChunks
    /\ xfer.started = 2 /\ xfer.done_flag = "Done"

\* C32: when the dispatching task has abandoned its wait (the acknowledgment
\* receiver was dropped) before the owner thread pumps the message, wnd_proc still
\* unboxes the envelope and calls the handler with the flag false, also for a live
\* object: the closure does not run and the parameter is released, exactly once.
C32_AbandonedDispatchNotRun ==
    [][LET e == wnd.e IN
       (/\ wnd.st = "acked" /\ wnd'.st = "idle" /\ ub = "none"
        /\ ~IsPanic(e) /\ ack[e] = "rx_dropped" /\ ~wnd.has_rx)
         => /\ unbox_owner[e] = 1
            /\ owner_flag'[e] = "false"
            /\ ran'[e] = ran[e]
            /\ panicked'[e] = panicked[e]
            /\ param_free[e] = 0 /\ param_free'[e] = 1]_vars

\* the caller's invoke future was dropped while it awaited the acknowledgment; the
\* object is alive when the owner thread handles the message with the flag false
C32_Witness ==
    /\ alive /\ pc[AsyncInv] = "dropped" /\ ack[AsyncInv] = "rx_dropped"
    /\ unbox_owner[AsyncInv] = 1 /\ owner_flag[AsyncInv] = "false"
    /\ ran[AsyncInv] = 0 /\ param_free[AsyncInv] = 1

\* the dispatches that have posted their envelope and have not returned yet
Posted == {p \in Procs : pc[p] \in {"wait", "bwait", "bcheck"}}

\* C33: dispatches to one owner context are serialized by the context's lock: an
\* envelope is posted only while no other dispatch of the context is between its
\* lock and its return, the dispatch that waits holds the lock, and so at most one
\* posted envelope per context is awaiting its acknowledgment at any time.
C33_DispatchSerialized ==
    /\ [](/\ Cardinality(Posted) <= 1
          /\ \A p \in Posted : hwnd_lock = p
          /\ \A p \in Procs : pc[p] = "retry" => (hwnd_lock = p /\ Posted = {}))
    /\ [][\A p \in Procs :
            (p \notin Posted /\ pc'[p] \in {"wait", "bwait", "bcheck"})
               => (Posted = {} /\ hwnd_lock \in {0, p})]_vars

\* invoke has posted its envelope and waits for the acknowledgment while
\* blocking_invoke waits for the lock with its envelope not yet posted
C33_Witness ==
    /\ pc[AsyncInv] = "wait" /\ ack[AsyncInv] = "open" /\ queue = <<AsyncInv>>
    /\ pc[BlockInv] = "lock" /\ hwnd_lock = AsyncInv

\* the tasks that have been given an id
Registered == {t \in Tasks : cancel_id[t] # -1}

\* C34: the ids a registry hands out are pairwise distinct and strictly increasing
\* in creation order, also when a position of the list is reused, and every entry
\* carries the id of the task whose channel it holds; therefore a cancel() that
\* returns true through the token of one task signals no other task and removes
\* no other task's entry, and a delivery removes the entry of its own task only.
C34_IdsDistinctIncreasing ==
    /\ [](/\ \A t, u \in Registered : t < u => cancel_id[t] < cancel_id[u]
          /\ \A t \in Registered : cancel_id[t] < next_id
          /\ \A i \in 1..Len(pending) :
                /\ pending[i].ch \in Registered
                /\ pending[i].id = cancel_id[pending[i].ch]
                /\ \A j \in 1..Len(pending) : pending[j].id = pending[i].id => j = i)
    /\ [][/\ \A t \in Tasks :
                (t \notin Registered /\ cancel_id'[t] # -1)
                   => /\ cancel_id'[t] = next_id /\ next_id' = next_id + 1
                      /\ \A u \in Registered : cancel_id[u] < cancel_id'[t]
          /\ \A t \in Tasks :
                cancel_true'[t] # cancel_true[t]
                   => \A u \in Tasks \ {t} :
                         /\ signal'[u] = signal[u] /\ sends'[u] = sends[u]
                         /\ u \in Channels(pending) => u \in Channels(pending')
          /\ (wnd.st = "acked" /\ wnd'.st = "idle")
                => \A u \in Tasks \ {wnd.e} :
                      u \in Channels(pending) => u \in Channels(pending')]_vars

\* the position of a panicked task's entry was reused for the next task, under a
\* larger id, and cancel() through the next task's token has returned true
C34_Witness ==
    /\ payload[1] = "panic" /\ rx_closed[1] /\ cancel_id[1] = 0 /\ cancel_id[2] = 1
    /\ cancel_true[2] = 1 /\ cancel_true[1] = 0 /\ signal[2] = 1 /\ signal[1] = 0
    /\ pending = <<>>

\* C35: while a context exists the shared window class stays registered: the class
\* atom is never reset to 0 while a context whose window was created from it is
\* alive, and SyncContext::new never tries to register a class that is still
\* registered.
C35_ClassRegisteredWhileUsed ==
    /\ (\E c \in Ctxs : ctx[c] \in {"window", "live"}) => (cls.atom # 0 /\ cls.registered)
    /\ ~cls.failed

\* C36: when a Win32Event that owns its handle and has a registered wait is
\* dropped, the wait is deregistered before the handle is closed: the handle is
\* never closed while a wait on it is still registered.
C36_UnregisterBeforeClose ==
    (e_event.owned /\ e_closed) => e_wait \in {"none", "unregistered"}

\* the worker still holds msg_rx: its run loop has not returned
Receiving(g) == worker[g] = "loop"

C38_ShutdownReturns ==
    (sd[Owner] # "no") ~> (sd[Owner] = "no" \/ ub = "abort")

\* C39: for every request started with AsyncSend, HttpClient raises OnComplete at
\* most once: from the task's completion with the real response, or from Cancel /
\* CancelAll with a cancelled response, never both; a request replaced by a later
\* AsyncSend with the same id raises no OnComplete from then on; and the cancelled
\* response of Cancel / CancelAll raises neither OnSuccess nor OnError.
C39_OnCompleteAtMostOnce ==
    /\ [](\A t \in Tasks :
            /\ ran[t] + http.cancelled[t] <= 1
            /\ http.answered[t] = 0)
    /\ [][\A t \in Tasks :
            http'.replaced[t] => /\ ran'[t] = ran[t]
                                 /\ http'.cancelled[t] = http.cancelled[t]]_vars

\* the first request was replaced by a second AsyncSend with the same id and
\* raised nothing; the second one completed, and the Cancel that followed found
\* its entry still in the map and raised no second OnComplete
C39_Witness ==
    /\ http.replaced[1] /\ cancel_true[1] = 1 /\ ran[1] = 0 /\ http.cancelled[1] = 0
    /\ ran[2] = 1 /\ http.cancelled[2] = 0 /\ cancel_true[2] = 0
    /\ \A i \in ReqIds : http.map[i] = 0

====
